---------------------------- MODULE Spec2Model ----------------------------
(***************************************************************************)
(* A model of the combining engine of epub_combiner.py: path               *)
(* normalisation, spine resolution, content-addressed asset assignment,    *)
(* the per-source reference mapper, reference rewriting, the generated     *)
(* package documents and the packing of the output archive.                *)
(*                                                                         *)
(* Strings are sequences of one-character strings, so that normalisation,  *)
(* suffix tests and lexical sorting are computed character by character    *)
(* as the Python code computes them.  Only printable ASCII occurs.         *)
(***************************************************************************)
EXTENDS Naturals, Integers, Sequences, FiniteSets, TLC

(***************************************************************************)
(* Characters and the string primitives of Python that the code uses.      *)
(***************************************************************************)

\* An assignment to a local: F is evaluated with its parameter bound to v.
With(v, F(_)) == F(v)

\* The printable ASCII characters in code-point order, starting at 32 (the
\* grave accent, code 96, cannot be written in a string here and is not used).
Ascii ==
  << " ", "!", "\"", "#", "$", "%", "&", "'", "(", ")", "*", "+", ",", "-",
     ".", "/", "0", "1", "2", "3", "4", "5", "6", "7", "8", "9", ":", ";",
     "<", "=", ">", "?", "@", "A", "B", "C", "D", "E", "F", "G", "H", "I",
     "J", "K", "L", "M", "N", "O", "P", "Q", "R", "S", "T", "U", "V", "W",
     "X", "Y", "Z", "[", "\\", "]", "^", "_", "(grave)", "a", "b", "c", "d", "e",
     "f", "g", "h", "i", "j", "k", "l", "m", "n", "o", "p", "q", "r", "s",
     "t", "u", "v", "w", "x", "y", "z", "{", "|", "}", "~" >>

Chars == {Ascii[i] : i \in 1..Len(Ascii)}

\* Python's ord(): the code point, by which str comparison and sorted() order.
ord == [c \in Chars |-> 31 + (CHOOSE i \in 1..Len(Ascii) : Ascii[i] = c)]

\* chr() on the printable range.
chr(n) == Ascii[n - 31]

\* str.lower() on one character.
lowerChar ==
  [c \in Chars |-> With(ord[c], LAMBDA n : IF n >= 65 /\ n <= 90 THEN chr(n + 32) ELSE c)]

\* str.lower()
lower(s) == [i \in 1..Len(s) |-> lowerChar[s[i]]]

\* s[i:] (i counted from 1) and s[:i]
From(s, i) == SubSeq(s, i, Len(s))
Upto(s, i) == SubSeq(s, 1, i)

\* str.startswith / str.endswith
startswith(s, p) == Len(p) <= Len(s) /\ SubSeq(s, 1, Len(p)) = p
endswith(s, p) == Len(p) <= Len(s) /\ SubSeq(s, Len(s) - Len(p) + 1, Len(s)) = p

\* str.startswith with a tuple of prefixes
startswithAny(s, ps) == \E p \in ps : startswith(s, p)

\* str.find(c) for a one-character needle: the first position (from 1), 0 when absent.
find(s, c) == IF \E i \in 1..Len(s) : s[i] = c
              THEN CHOOSE i \in 1..Len(s) : s[i] = c /\ \A j \in 1..(i-1) : s[j] # c
              ELSE 0

\* str.rfind(c): the last position (from 1), 0 when absent.
rfind(s, c) == IF \E i \in 1..Len(s) : s[i] = c
               THEN CHOOSE i \in 1..Len(s) : s[i] = c /\ \A j \in (i+1)..Len(s) : s[j] # c
               ELSE 0

\* str.replace('\\', '/')
replaceBackslash(s) == [i \in 1..Len(s) |-> IF s[i] = "\\" THEN "/" ELSE s[i]]

\* str.lstrip(c) / str.strip() (the only whitespace in the alphabet is the space)
RECURSIVE lstripChar(_, _)
lstripChar(s, c) == IF s # << >> /\ s[1] = c THEN lstripChar(Tail(s), c) ELSE s

RECURSIVE rstripChar(_, _)
rstripChar(s, c) == IF s # << >> /\ s[Len(s)] = c THEN rstripChar(Upto(s, Len(s) - 1), c) ELSE s

strip(s) == rstripChar(lstripChar(s, " "), " ")

\* str.split(sep) for a one-character separator: the pieces, empty ones included.
RECURSIVE split(_, _)
split(s, sep) ==
  LET i == find(s, sep)
  IN IF i = 0 THEN << s >> ELSE << Upto(s, i - 1) >> \o split(From(s, i + 1), sep)

\* sep.join(parts)
RECURSIVE join(_, _)
join(parts, sep) ==
  IF parts = << >> THEN << >>
  ELSE IF Len(parts) = 1 THEN parts[1]
  ELSE parts[1] \o sep \o join(Tail(parts), sep)

\* Python's < on str: lexicographic by code point.
RECURSIVE strLess(_, _)
strLess(a, b) ==
  IF b = << >> THEN FALSE
  ELSE IF a = << >> THEN TRUE
  ELSE IF a[1] = b[1] THEN strLess(Tail(a), Tail(b))
  ELSE ord[a[1]] < ord[b[1]]

\* sorted(S) for a set of strings
RECURSIVE sorted(_)
sorted(S) ==
  IF S = {} THEN << >>
  ELSE LET m == CHOOSE x \in S : \A y \in S \ {x} : strLess(x, y)
       IN << m >> \o sorted(S \ {m})

hexDigits == <<"0","1","2","3","4","5","6","7","8","9","a","b","c","d","e","f">>

isHex(c) == \E i \in 1..16 : hexDigits[i] = lowerChar[c]
hexVal(c) == (CHOOSE i \in 1..16 : hexDigits[i] = lowerChar[c]) - 1

\* urllib.parse.unquote: every %XX with two hex digits becomes the character of
\* that code; anything else is kept.  Codes outside printable ASCII do not occur.
RECURSIVE unquote(_)
unquote(s) ==
  IF s = << >> THEN << >>
  ELSE IF s[1] = "%" /\ Len(s) >= 3 /\ isHex(s[2]) /\ isHex(s[3])
          /\ 16 * hexVal(s[2]) + hexVal(s[3]) \in 32..126
       THEN << chr(16 * hexVal(s[2]) + hexVal(s[3])) >> \o unquote(From(s, 4))
       ELSE << s[1] >> \o unquote(Tail(s))

\* str(n) for a natural number: its decimal digits.
RECURSIVE str(_)
str(n) == IF n < 10 THEN << chr(48 + n) >> ELSE str(n \div 10) \o << chr(48 + (n % 10)) >>

(***************************************************************************)
(* pathlib (POSIX flavour): the components of a path, its name, suffix,    *)
(* stem and parent.                                                        *)
(***************************************************************************)

\* The components pathlib keeps: empty pieces and "." are dropped.
Path_parts(s) == SelectSeq(split(s, "/"), LAMBDA p : p # << >> /\ p # <<".">>)

\* Path(s).name
Path_name(s) ==
  With(Path_parts(s), LAMBDA ps : IF ps = << >> THEN << >> ELSE ps[Len(ps)])

\* Path(s).suffix: from the last dot of the name, unless that dot is the
\* first or the last character of the name.
Path_suffix(s) ==
  With(Path_name(s), LAMBDA n :
  With(rfind(n, "."), LAMBDA i :
    IF i > 1 /\ i < Len(n) THEN From(n, i) ELSE << >>))

\* Path(s).stem
Path_stem(s) ==
  With(Path_name(s), LAMBDA n :
  With(rfind(n, "."), LAMBDA i :
    IF i > 1 /\ i < Len(n) THEN Upto(n, i - 1) ELSE n))

\* str(Path(s).parent)
Path_parent(s) ==
  With(Path_parts(s), LAMBDA ps :
  With(IF ps = << >> THEN << >> ELSE join(Upto(ps, Len(ps) - 1), <<"/">>), LAMBDA up :
    IF s # << >> /\ s[1] = "/"
    THEN \* POSIX keeps a root of exactly two slashes apart from "/"
         (IF startswith(s, <<"/","/">>) /\ ~startswith(s, <<"/","/","/">>)
          THEN <<"/","/">> ELSE <<"/">>) \o up
    ELSE IF up = << >> THEN <<".">> ELSE up))

(***************************************************************************)
(* File classes and media types.                                           *)
(***************************************************************************)

XHTML_EXTENSIONS == { <<".","x","h","t","m","l">>, <<".","h","t","m","l">>,
                      <<".","h","t","m">>, <<".","x","m","l">> }
IMAGE_EXTENSIONS == { <<".","p","n","g">>, <<".","j","p","g">>, <<".","j","p","e","g">>,
                      <<".","g","i","f">>, <<".","s","v","g">>, <<".","w","e","b","p">>,
                      <<".","b","m","p">>, <<".","t","i","f">>, <<".","t","i","f","f">> }
STYLE_EXTENSIONS == { <<".","c","s","s">> }
FONT_EXTENSIONS == { <<".","t","t","f">>, <<".","o","t","f">>, <<".","w","o","f","f">>,
                     <<".","w","o","f","f","2">> }

_is_content_file(name) == lower(Path_suffix(name)) \in XHTML_EXTENSIONS
_is_image_file(name) == lower(Path_suffix(name)) \in IMAGE_EXTENSIONS
_is_style_file(name) == lower(Path_suffix(name)) \in STYLE_EXTENSIONS
_is_font_file(name) == lower(Path_suffix(name)) \in FONT_EXTENSIONS

_is_nav_doc(name) ==
  With(lower(name), LAMBDA low :
    \/ endswith(low, <<"n","a","v",".","x","h","t","m","l">>)
    \/ endswith(low, <<"n","a","v",".","h","t","m","l">>)
    \/ Path_stem(low) = <<"n","a","v">>)

_is_toc_doc(name) ==
  With(lower(name), LAMBDA low :
    \/ endswith(low, <<"t","o","c",".","n","c","x">>)
    \/ endswith(low, <<"t","o","c",".","x","h","t","m","l">>)
    \/ endswith(low, <<"t","o","c",".","h","t","m","l">>)
    \/ Path_stem(low) = <<"t","o","c">>)

(***************************************************************************)
(* Path normalisation and reference splitting.                             *)
(***************************************************************************)

\* The loop of _posix_norm over the pieces: "" and "." are skipped, ".." pops
\* the last kept piece if there is one.
RECURSIVE foldParts(_, _)
foldParts(pieces, parts) ==
  IF pieces = << >> THEN parts
  ELSE LET p == pieces[1]
       IN IF p = << >> \/ p = <<".">> THEN foldParts(Tail(pieces), parts)
          ELSE IF p = <<".",".">>
               THEN foldParts(Tail(pieces),
                              IF parts = << >> THEN parts ELSE Upto(parts, Len(parts) - 1))
               ELSE foldParts(Tail(pieces), Append(parts, p))

_posix_norm(path) ==
  With(replaceBackslash(path), LAMBDA p1 :
  With(IF startswith(p1, <<"/">>) THEN lstripChar(p1, "/") ELSE p1, LAMBDA p2 :
    join(foldParts(split(p2, "/"), << >>), <<"/">>)))

_norm_key(path) == lower(_posix_norm(unquote(replaceBackslash(path))))

\* The position at which _split_ref_suffix cuts (from 1), 0 for no cut.
cutAt(ref) ==
  With(find(ref, "?"), LAMBDA q :
  With(find(ref, "#"), LAMBDA h :
    IF q # 0 /\ h # 0 THEN (IF q < h THEN q ELSE h)
    ELSE IF q # 0 THEN q
    ELSE h))

\* _split_ref_suffix(ref) = <<base, suffix>>
_split_ref_suffix(ref) ==
  IF ref = << >> THEN << << >>, << >> >>
  ELSE With(cutAt(ref), LAMBDA c :
         IF c = 0 THEN << ref, << >> >>
         ELSE << Upto(ref, c - 1), From(ref, c) >>)

(***************************************************************************)
(* Optional values: None is the empty sequence, a value v is <<v>>.        *)
(***************************************************************************)
None == << >>
Some(v) == << v >>

\* dict[k] = v
Put(d, k, v) == [x \in (DOMAIN d) \cup {k} |-> IF x = k THEN v ELSE d[x]]

\* The empty dict.
EmptyDict == [x \in {} |-> << >>]

(***************************************************************************)
(* _AssetMapper: per source, original path -> href in the combined book.   *)
(***************************************************************************)

\* _AssetMapper()
AssetMapper_init ==
  [_map |-> EmptyDict, _basename_targets |-> EmptyDict, _basename_map |-> EmptyDict]

\* _AssetMapper.add
AssetMapper_add(m, original_zip_path, new_href) ==
  With(_norm_key(original_zip_path), LAMBDA key :
  With(_norm_key(Path_name(replaceBackslash(original_zip_path))), LAMBDA bkey :
  With(IF key # << >> THEN [m EXCEPT !._map = Put(m._map, key, new_href)] ELSE m,
       LAMBDA m1 :
  With(IF bkey \in DOMAIN m._basename_targets THEN m._basename_targets[bkey] ELSE {},
       LAMBDA old :
    IF bkey # << >>
    THEN [m1 EXCEPT !._basename_targets = Put(m._basename_targets, bkey, old \cup {new_href})]
    ELSE m1))))

\* A finalize that keeps every basename, with any one of its targets.
AssetMapper_finalize_any(m) ==
  [m EXCEPT !._basename_map =
     [b \in DOMAIN m._basename_targets |-> CHOOSE h \in m._basename_targets[b] : TRUE]]

\* _AssetMapper.finalize: a basename is kept when it has exactly one target.
AssetMapper_finalize(m) ==
  [m EXCEPT !._basename_map =
     [b \in {k \in DOMAIN m._basename_targets : Cardinality(m._basename_targets[k]) = 1}
        |-> CHOOSE h \in m._basename_targets[b] : TRUE]]

\* The prefixes that lookup refuses.
LookupSkipPrefixes ==
  { <<"h","t","t","p",":","/","/">>, <<"h","t","t","p","s",":","/","/">>,
    <<"m","a","i","l","t","o",":">>, <<"t","e","l",":">>, <<"d","a","t","a",":">> }

\* The exact-match candidates with the resolved form tried before the form as written.
LookupCandidatesResolvedFirst(base, content_path) ==
  With(_posix_norm(replaceBackslash(Path_parent(content_path))), LAMBDA content_dir :
    IF content_dir # << >> /\ ~startswith(base, <<"/">>)
    THEN << _norm_key(content_dir \o <<"/">> \o base), _norm_key(base) >>
    ELSE << _norm_key(base) >>)

\* The exact-match candidates of lookup, in the order they are tried.
LookupCandidates(base, content_path) ==
  With(_posix_norm(replaceBackslash(Path_parent(content_path))), LAMBDA content_dir :
  With(startswith(base, <<"/">>), LAMBDA rooted :
  With(_norm_key(base), LAMBDA direct :
    << direct >> \o
    (IF content_dir # << >> /\ ~rooted THEN << _norm_key(content_dir \o <<"/">> \o base) >>
     ELSE IF content_dir = << >> /\ ~rooted THEN << direct >>
     ELSE << >>))))

\* _AssetMapper.lookup: None, or Some(href + suffix)
AssetMapper_lookup(m, old_ref, content_path) ==
  IF old_ref = << >> THEN None
  ELSE
    With(_split_ref_suffix(old_ref), LAMBDA sp :
    With(strip(sp[1]), LAMBDA base0 :
    With(sp[2], LAMBDA suffix :
    With(replaceBackslash(base0), LAMBDA base :
    With(LookupCandidates(base, content_path), LAMBDA cands :
    With({i \in 1..Len(cands) : cands[i] \in DOMAIN m._map}, LAMBDA hits :
    With(_norm_key(Path_name(base)), LAMBDA bkey :
      IF base0 = << >> THEN None
      ELSE IF startswithAny(base0, LookupSkipPrefixes) THEN None
      ELSE IF startswith(base0, <<"#">>) THEN None
      ELSE IF hits # {}
           THEN Some(m._map[cands[CHOOSE i \in hits : \A j \in hits : i <= j]] \o suffix)
      ELSE IF bkey \in DOMAIN m._basename_map
           THEN Some(m._basename_map[bkey] \o suffix)
      ELSE None)))))))

(***************************************************************************)
(* Texts.  A stylesheet is [body, refs]: body stands for the bytes outside *)
(* its references, refs lists its url(...) and @import references in       *)
(* order, each [kind, u].  A content document is [title, heading, items]:  *)
(* the inner text of its first <title> and first <h1..h6>, and its         *)
(* reference-bearing constructs in order, each                             *)
(*   [kind |-> "attr", v]        a src/href/xlink:href/poster attribute    *)
(*   [kind |-> "srcset", v]      a srcset attribute (the whole value)      *)
(*   [kind |-> "style", css]     an inline style attribute                 *)
(*   [kind |-> "styleblock", css] the body of a <style> element            *)
(* The rewriter substitutes inside these constructs and nowhere else.      *)
(***************************************************************************)

\* The prefixes the CSS sub-pass leaves alone.
CssSkipPrefixes ==
  { <<"d","a","t","a",":">>, <<"h","t","t","p",":","/","/">>,
    <<"h","t","t","p","s",":","/","/">> }

\* _url_repl / _import_repl on one reference: the value that ends up between
\* the parentheses or quotes.
CssRefRepl(r, m, content_path) ==
  With(strip(r.u), LAMBDA u :
  With(AssetMapper_lookup(m, u, content_path), LAMBDA new_u :
    IF u = << >> \/ startswithAny(u, CssSkipPrefixes) THEN r
    ELSE IF new_u = None THEN r
    ELSE [r EXCEPT !.u = new_u[1]]))

\* _rewrite_css_refs on the references of a CSS text.
_rewrite_css_refs(refs, m, content_path) ==
  [i \in 1..Len(refs) |-> CssRefRepl(refs[i], m, content_path)]

\* The prefixes _attr_repl leaves alone.
AttrSkipPrefixes ==
  { <<"h","t","t","p",":","/","/">>, <<"h","t","t","p","s",":","/","/">>,
    <<"m","a","i","l","t","o",":">>, <<"t","e","l",":">>, <<"#">>,
    <<"d","a","t","a",":">> }

\* An _attr_repl that empties the attribute when the mapper finds nothing.
_attr_repl_or_blank(old_ref, m, content_path) ==
  With(AssetMapper_lookup(m, old_ref, content_path), LAMBDA new_ref :
    IF startswithAny(lstripChar(old_ref, " "), AttrSkipPrefixes) THEN old_ref
    ELSE IF new_ref = None THEN << >>
    ELSE new_ref[1])

\* _attr_repl: the new value of a src/href/xlink:href/poster attribute.
_attr_repl(old_ref, m, content_path) ==
  With(AssetMapper_lookup(m, old_ref, content_path), LAMBDA new_ref :
    IF startswithAny(lstripChar(old_ref, " "), AttrSkipPrefixes) THEN old_ref
    ELSE IF new_ref = None THEN old_ref
    ELSE new_ref[1])

\* str.split() without argument: the non-empty pieces between spaces.
splitWs(s) == SelectSeq(split(s, " "), LAMBDA p : p # << >>)

\* The candidates of a srcset value: split on commas, stripped, empties dropped.
SrcsetParts(srcset) ==
  With(split(srcset, ","), LAMBDA pieces :
    SelectSeq([i \in 1..Len(pieces) |-> strip(pieces[i])], LAMBDA p : p # << >>))

\* One candidate of a srcset: its URL token is looked up, its descriptors kept.
SrcsetCandidateRepl(p, m, content_path) ==
  With(splitWs(p), LAMBDA bits :
  With(bits[1], LAMBDA url_part :
  With(join(Tail(bits), <<" ">>), LAMBDA rest :
  With(AssetMapper_lookup(m, url_part, content_path), LAMBDA looked :
  With(IF looked = None THEN url_part ELSE looked[1], LAMBDA new_url :
    strip(new_url \o (IF rest # << >> THEN <<" ">> \o rest ELSE << >>)))))))

\* _srcset_repl: the new value of a srcset attribute.
_srcset_repl(srcset, m, content_path) ==
  With(SrcsetParts(srcset), LAMBDA parts :
    join([i \in 1..Len(parts) |-> SrcsetCandidateRepl(parts[i], m, content_path)],
         <<",", " ">>))

\* One construct of a content document under _rewrite_asset_refs.
ItemRepl(it, m, content_path) ==
  IF it.kind = "attr" THEN [it EXCEPT !.v = _attr_repl(it.v, m, content_path)]
  ELSE IF it.kind = "srcset" THEN [it EXCEPT !.v = _srcset_repl(it.v, m, content_path)]
  ELSE [it EXCEPT !.css = _rewrite_css_refs(it.css, m, content_path)]

\* _rewrite_asset_refs on a content document.
_rewrite_asset_refs(text, m, content_path) ==
  [text EXCEPT !.items = [i \in 1..Len(text.items) |-> ItemRepl(text.items[i], m, content_path)]]

\* re.sub(r"\s+", " ", t): runs of spaces become one space.
RECURSIVE collapse(_)
collapse(t) ==
  IF Len(t) < 2 THEN t
  ELSE IF t[1] = " " /\ t[2] = " " THEN collapse(Tail(t))
  ELSE << t[1] >> \o collapse(Tail(t))

\* _extract_doc_label: the title if it is not blank, else the first heading.
_extract_doc_label(text) ==
  IF strip(text.title) # << >> THEN collapse(strip(text.title))
  ELSE IF strip(text.heading) # << >> THEN collapse(strip(text.heading))
  ELSE << >>

(***************************************************************************)
(* A source archive zf is [is_zipfile, opens, names, read]: whether        *)
(* zipfile.is_zipfile accepts the file, whether ZipFile() then opens it,   *)
(* namelist() in archive order, and for each name the entry zf.read        *)
(* yields: ok says whether the read succeeds, the other fields are the     *)
(* entry's parsed content (an image or font: bytes; a stylesheet: body,    *)
(* refs; a content document: title, heading, items; the container          *)
(* descriptor: wellformed, rootfile; a package document: wellformed,       *)
(* manifest, spine).                                                       *)
(***************************************************************************)

\* zf.read(name) returns (rather than raising KeyError or a read error).
CanRead(zf, name) == name \in DOMAIN zf.read /\ zf.read[name].ok

\* The first position of a sequence that satisfies Test, 0 when none does.
FirstIndex(seq, Test(_)) ==
  IF \E i \in 1..Len(seq) : Test(seq[i])
  THEN CHOOSE i \in 1..Len(seq) : Test(seq[i]) /\ \A j \in 1..(i - 1) : ~Test(seq[j])
  ELSE 0

\* The package document path taken from META-INF/container.xml, "" on any failure.
ContainerOpfPath(zf) ==
  LET c == <<"M","E","T","A","-","I","N","F","/","c","o","n","t","a","i","n","e","r",".","x","m","l">>
  IN IF CanRead(zf, c) /\ zf.read[c].wellformed /\ zf.read[c].rootfile # None
     THEN zf.read[c].rootfile[1]
     ELSE << >>

\* The fallback: the first entry whose name ends with .opf
FallbackOpfPath(zf) ==
  With(FirstIndex(zf.names, LAMBDA n : endswith(n, <<".","o","p","f">>)), LAMBDA i :
    IF i = 0 THEN << >> ELSE zf.names[i])

\* id_to_href.get(idref, ''): the href of the last manifest item with that id.
IdToHref(manifest, idref) ==
  LET idx == {i \in 1..Len(manifest) :
                manifest[i].id = idref /\ manifest[i].id # "" /\ manifest[i].href # << >>}
  IN IF idx = {} THEN << >>
     ELSE manifest[CHOOSE i \in idx : \A j \in idx : j <= i].href

\* A resolver that answers with the archive's names, in archive order, when
\* it has no package document to read.
_get_spine_order_or_names(zf) ==
  With(ContainerOpfPath(zf), LAMBDA from_container :
  With(IF from_container # << >> THEN from_container ELSE FallbackOpfPath(zf),
       LAMBDA opf_path :
  With(Path_parent(opf_path), LAMBDA parent :
  With(IF parent = <<".">> THEN << >> ELSE parent, LAMBDA opf_dir :
    IF opf_path = << >> THEN zf.names
    ELSE IF ~(CanRead(zf, opf_path) /\ zf.read[opf_path].wellformed) THEN zf.names
    ELSE With(zf.read[opf_path], LAMBDA pkg :
         With(SelectSeq([i \in 1..Len(pkg.spine) |->
                           IdToHref(pkg.manifest, pkg.spine[i])],
                        LAMBDA h : h # << >>), LAMBDA kept :
           [i \in 1..Len(kept) |->
              IF opf_dir # << >> THEN opf_dir \o <<"/">> \o kept[i] ELSE kept[i]]))))))

\* _get_spine_order: the spine's hrefs joined to the package document's directory.
_get_spine_order(zf) ==
  With(ContainerOpfPath(zf), LAMBDA from_container :
  With(IF from_container # << >> THEN from_container ELSE FallbackOpfPath(zf),
       LAMBDA opf_path :
  With(Path_parent(opf_path), LAMBDA parent :
  With(IF parent = <<".">> THEN << >> ELSE parent, LAMBDA opf_dir :
    IF opf_path = << >> THEN << >>
    ELSE IF ~(CanRead(zf, opf_path) /\ zf.read[opf_path].wellformed) THEN << >>
    ELSE With(zf.read[opf_path], LAMBDA pkg :
         With(SelectSeq([i \in 1..Len(pkg.spine) |->
                           IdToHref(pkg.manifest, pkg.spine[i])],
                        LAMBDA h : h # << >>), LAMBDA kept :
           [i \in 1..Len(kept) |->
              IF opf_dir # << >> THEN opf_dir \o <<"/">> \o kept[i] ELSE kept[i]]))))))

\* all_content: the entries that qualify as content files, in archive order.
all_content(zf, exclude_nav_docs, exclude_toc_docs) ==
  SelectSeq(zf.names,
            LAMBDA n : /\ _is_content_file(n)
                       /\ ~(exclude_nav_docs /\ _is_nav_doc(n))
                       /\ ~(exclude_toc_docs /\ _is_toc_doc(n)))

\* The elements of a sequence.
Range(seq) == {seq[i] : i \in 1..Len(seq)}

\* The test by which a spine entry takes an archive entry.
SpineMatches(candidate, sp) ==
  candidate = sp \/ replaceBackslash(candidate) = replaceBackslash(sp)

\* The matching loop left out: every entry is a leftover, in lexical order.
OrderedContentLexical(spine_order, remaining, ordered) == { ordered \o sorted(remaining) }

\* Every ordered_content the matching loop can produce.  For each spine entry
\* the loop takes the first matching element of list(remaining); remaining is
\* a set of str, whose iteration order changes from one process to the next
\* (str hashes are randomised), so when several entries match, any of them
\* may be the one taken.  What is left over is appended sorted.
RECURSIVE OrderedContentChoices(_, _, _)
OrderedContentChoices(spine_order, remaining, ordered) ==
  IF spine_order = << >> THEN { ordered \o sorted(remaining) }
  ELSE LET sp == spine_order[1]
           hits == {c \in remaining : SpineMatches(c, sp)}
       IN IF hits = {}
          THEN OrderedContentChoices(Tail(spine_order), remaining, ordered)
          ELSE UNION { OrderedContentChoices(Tail(spine_order), remaining \ {c},
                                             Append(ordered, c)) : c \in hits }

(***************************************************************************)
(* Asset assignment.  The run's state that the collecting loops thread     *)
(* through is st = [used, manifest_items, tree, mapper, consults]: the     *)
(* dict from content hash to assigned name of the class at hand, the       *)
(* manifest, the files of the working directory (path -> content), the     *)
(* source's mapper, and the record of the lookups the rewriter has made.   *)
(* A hash is modelled by the content it is the hash of.                    *)
(***************************************************************************)

\* The lookups _rewrite_css_refs makes on refs: for each reference it hands
\* to the mapper, the construct it stands in, the reference as written, what
\* the mapper answered, and the reference as it stands afterwards in out.
CssConsults(refs, out, m, content_path, kind) ==
  { [kind |-> kind, path |-> content_path, orig |-> refs[k].u,
     found |-> AssetMapper_lookup(m, strip(refs[k].u), content_path),
     out |-> out[k].u] :
    k \in {j \in 1..Len(refs) :
             With(strip(refs[j].u), LAMBDA u :
               u # << >> /\ ~startswithAny(u, CssSkipPrefixes))} }

\* The lookups _rewrite_asset_refs makes on one construct.
ItemConsults(it, out, m, content_path) ==
  IF it.kind = "attr"
  THEN IF startswithAny(lstripChar(it.v, " "), AttrSkipPrefixes) THEN {}
       ELSE { [kind |-> "attr", path |-> content_path, orig |-> it.v,
               found |-> AssetMapper_lookup(m, it.v, content_path), out |-> out.v] }
  ELSE IF it.kind = "srcset"
  THEN With(SrcsetParts(it.v), LAMBDA parts :
       With(SrcsetParts(out.v), LAMBDA new_parts :
         { With(splitWs(parts[k])[1], LAMBDA url_part :
             [kind |-> "srcset", path |-> content_path, orig |-> url_part,
              found |-> AssetMapper_lookup(m, url_part, content_path),
              out |-> splitWs(new_parts[k])[1]]) :
           k \in 1..Len(parts) }))
  ELSE CssConsults(it.css, out.css, m, content_path, it.kind)

\* The lookups _rewrite_asset_refs makes on a content document.
TextConsults(text, out, m, content_path) ==
  UNION { ItemConsults(text.items[k], out.items[k], m, content_path) :
          k \in 1..Len(text.items) }

MIMETYPE_MAP ==
  (<<".","x","h","t","m","l">> :> "application/xhtml+xml") @@
  (<<".","h","t","m","l">> :> "application/xhtml+xml") @@
  (<<".","h","t","m">> :> "application/xhtml+xml") @@
  (<<".","x","m","l">> :> "application/xhtml+xml") @@
  (<<".","c","s","s">> :> "text/css") @@
  (<<".","p","n","g">> :> "image/png") @@
  (<<".","j","p","g">> :> "image/jpeg") @@
  (<<".","j","p","e","g">> :> "image/jpeg") @@
  (<<".","g","i","f">> :> "image/gif") @@
  (<<".","s","v","g">> :> "image/svg+xml") @@
  (<<".","w","e","b","p">> :> "image/webp") @@
  (<<".","b","m","p">> :> "image/bmp") @@
  (<<".","t","i","f">> :> "image/tiff") @@
  (<<".","t","i","f","f">> :> "image/tiff") @@
  (<<".","t","t","f">> :> "font/ttf") @@
  (<<".","o","t","f">> :> "font/otf") @@
  (<<".","w","o","f","f">> :> "font/woff") @@
  (<<".","w","o","f","f","2">> :> "font/woff2") @@
  (<<".","n","c","x">> :> "application/x-dtbncx+xml")

_media_type(filename) ==
  With(lower(Path_suffix(filename)), LAMBDA ext :
    IF ext \in DOMAIN MIMETYPE_MAP THEN MIMETYPE_MAP[ext] ELSE "application/octet-stream")

\* What differs between the image loop and the font loop.
ImageClass == [prefix |-> <<"i","m","g","_">>, dir |-> <<"I","m","a","g","e","s">>]
FontClass == [prefix |-> <<"f","o","n","t","_">>, dir |-> <<"F","o","n","t","s">>]

OEBPS == <<"O","E","B","P","S">>

\* The body of the loop without the test "h in names_used": every entry is
\* given a new name and written.
AssetStepNoDedup(st, zf, name, cls) ==
  With(zf.read[name].bytes, LAMBDA h :
  With(Cardinality(DOMAIN st.used) + 1, LAMBDA n :
  With(cls.prefix \o str(n) \o lower(Path_suffix(name)), LAMBDA new_name :
    [st EXCEPT
       !.used = Put(@, h, new_name),
       !.tree = Put(@, OEBPS \o <<"/">> \o cls.dir \o <<"/">> \o new_name, [bytes |-> h]),
       !.manifest_items =
          Append(@, [id |-> cls.prefix \o str(n),
                     href |-> cls.dir \o <<"/">> \o new_name,
                     media_type |-> _media_type(new_name),
                     properties |-> ""]),
       !.mapper =
          AssetMapper_add(@, name, <<".",".","/">> \o cls.dir \o <<"/">> \o new_name)])))

\* The body of the image loop (and of the font loop) for one entry that was read.
AssetStep(st, zf, name, cls) ==
  With(zf.read[name].bytes, LAMBDA h :
  With(h \in DOMAIN st.used, LAMBDA known :
  With(Cardinality(DOMAIN st.used) + 1, LAMBDA n :
  With(IF known THEN st.used[h]
       ELSE cls.prefix \o str(n) \o lower(Path_suffix(name)), LAMBDA new_name :
  With(IF known THEN st
       ELSE [st EXCEPT
               !.used = Put(@, h, new_name),
               !.tree = Put(@, OEBPS \o <<"/">> \o cls.dir \o <<"/">> \o new_name,
                            [bytes |-> h]),
               !.manifest_items =
                  Append(@, [id |-> cls.prefix \o str(n),
                             href |-> cls.dir \o <<"/">> \o new_name,
                             media_type |-> _media_type(new_name),
                             properties |-> ""])], LAMBDA st1 :
    [st1 EXCEPT !.mapper =
       AssetMapper_add(@, name, <<".",".","/">> \o cls.dir \o <<"/">> \o new_name)])))))

\* The image loop (the font loop) over the entries of the class, in archive order.
RECURSIVE CollectAssets(_, _, _, _)
CollectAssets(names, st, zf, cls) ==
  IF names = << >> THEN st
  ELSE CollectAssets(Tail(names), AssetStep(st, zf, names[1], cls), zf, cls)

\* The stylesheet loop numbering its files by the number of manifest items,
\* whatever their class.
StyleStepSharedCounter(st, zf, name) ==
  With(zf.read[name], LAMBDA raw :
  With([body |-> raw.body, refs |-> _rewrite_css_refs(raw.refs, st.mapper, name)],
       LAMBDA css_text :
  With(css_text \in DOMAIN st.used, LAMBDA known :
  With(Len(st.manifest_items) + 1, LAMBDA n :
  With(IF known THEN st.used[css_text]
       ELSE <<"s","t","y","l","e","_">> \o str(n) \o <<".","c","s","s">>, LAMBDA new_name :
  With(IF known THEN st
       ELSE [st EXCEPT
               !.used = Put(@, css_text, new_name),
               !.tree = Put(@, OEBPS \o <<"/","S","t","y","l","e","s","/">> \o new_name,
                            css_text),
               !.manifest_items =
                  Append(@, [id |-> <<"c","s","s","_">> \o str(n),
                             href |-> <<"S","t","y","l","e","s","/">> \o new_name,
                             media_type |-> "text/css",
                             properties |-> ""])], LAMBDA st1 :
    [st1 EXCEPT
       !.mapper = AssetMapper_add(@, name, <<".",".","/","S","t","y","l","e","s","/">> \o new_name),
       !.consults = @ \cup CssConsults(raw.refs, css_text.refs, st.mapper, name,
                                       "stylesheet")]))))))

\* The stylesheet loop telling stylesheets apart by their text as read.
StyleStepRawIdentity(st, zf, name) ==
  With(zf.read[name], LAMBDA raw :
  With([body |-> raw.body, refs |-> _rewrite_css_refs(raw.refs, st.mapper, name)],
       LAMBDA css_text :
  With([body |-> raw.body, refs |-> raw.refs] \in DOMAIN st.used, LAMBDA known :
  With(Cardinality(DOMAIN st.used) + 1, LAMBDA n :
  With(IF known THEN st.used[[body |-> raw.body, refs |-> raw.refs]]
       ELSE <<"s","t","y","l","e","_">> \o str(n) \o <<".","c","s","s">>, LAMBDA new_name :
  With(IF known THEN st
       ELSE [st EXCEPT
               !.used = Put(@, [body |-> raw.body, refs |-> raw.refs], new_name),
               !.tree = Put(@, OEBPS \o <<"/","S","t","y","l","e","s","/">> \o new_name,
                            css_text),
               !.manifest_items =
                  Append(@, [id |-> <<"c","s","s","_">> \o str(n),
                             href |-> <<"S","t","y","l","e","s","/">> \o new_name,
                             media_type |-> "text/css",
                             properties |-> ""])], LAMBDA st1 :
    [st1 EXCEPT
       !.mapper = AssetMapper_add(@, name, <<".",".","/","S","t","y","l","e","s","/">> \o new_name),
       !.consults = @ \cup CssConsults(raw.refs, css_text.refs, st.mapper, name,
                                       "stylesheet")]))))))

\* The body of the stylesheet loop for one entry that was read: the
\* references are rewritten first, the rewritten text is what is hashed.
StyleStep(st, zf, name) ==
  With(zf.read[name], LAMBDA raw :
  With([body |-> raw.body, refs |-> _rewrite_css_refs(raw.refs, st.mapper, name)],
       LAMBDA css_text :
  With(css_text \in DOMAIN st.used, LAMBDA known :
  With(Cardinality(DOMAIN st.used) + 1, LAMBDA n :
  With(IF known THEN st.used[css_text]
       ELSE <<"s","t","y","l","e","_">> \o str(n) \o <<".","c","s","s">>, LAMBDA new_name :
  With(IF known THEN st
       ELSE [st EXCEPT
               !.used = Put(@, css_text, new_name),
               !.tree = Put(@, OEBPS \o <<"/","S","t","y","l","e","s","/">> \o new_name,
                            css_text),
               !.manifest_items =
                  Append(@, [id |-> <<"c","s","s","_">> \o str(n),
                             href |-> <<"S","t","y","l","e","s","/">> \o new_name,
                             media_type |-> "text/css",
                             properties |-> ""])], LAMBDA st1 :
    [st1 EXCEPT
       !.mapper = AssetMapper_add(@, name, <<".",".","/","S","t","y","l","e","s","/">> \o new_name),
       !.consults = @ \cup CssConsults(raw.refs, css_text.refs, st.mapper, name,
                                       "stylesheet")]))))))

RECURSIVE CollectStyles(_, _, _)
CollectStyles(names, st, zf) ==
  IF names = << >> THEN st
  ELSE CollectStyles(Tail(names), StyleStep(st, zf, names[1]), zf)

\* content_new_name: the target file name of each ordered content entry.
ContentNewName(ordered, start_num) ==
  [name \in Range(ordered) |->
     str(start_num + (CHOOSE i \in 1..Len(ordered) : ordered[i] = name))
       \o <<".","x","h","t","m","l">>]

\* The loop that adds the content mappings to the mapper.
RECURSIVE AddContentMappings(_, _, _)
AddContentMappings(ordered, new_name, m) ==
  IF ordered = << >> THEN m
  ELSE AddContentMappings(Tail(ordered), new_name,
         AssetMapper_add(m, ordered[1], <<".",".","/","T","e","x","t","/">> \o new_name[ordered[1]]))

\* f"Section {num}"
SectionLabel(num) == <<"S","e","c","t","i","o","n"," ">> \o str(num)

(***************************************************************************)
(* The generated package documents.                                        *)
(***************************************************************************)

\* _build_nav_xhtml: one link per label, the i-th to "i.xhtml".
_build_nav_xhtml(labels) ==
  [links |-> [i \in 1..Len(labels) |->
                [href |-> str(i) \o <<".","x","h","t","m","l">>,
                 label |-> IF labels[i] # << >> THEN labels[i] ELSE SectionLabel(i)]]]

\* _build_toc_ncx: one navPoint per spine id, the i-th to "Text/i.xhtml".
_build_toc_ncx(ids, labels) ==
  [navPoints |-> [i \in 1..Len(ids) |->
                    [label |-> IF i <= Len(labels) THEN labels[i] ELSE SectionLabel(i),
                     src |-> <<"T","e","x","t","/">> \o str(i) \o <<".","x","h","t","m","l">>]]]

\* A package document whose ncx item carries the id of the navigation document.
_build_content_opf_ncx_as_nav(items, ids) ==
  [manifest |-> << [id |-> <<"n","a","v">>, href |-> <<"t","o","c",".","n","c","x">>,
                    media_type |-> "application/x-dtbncx+xml", properties |-> ""] >> \o items,
   spine |-> ids]

\* _build_content_opf: the manifest (the ncx item first) and the spine.
_build_content_opf(items, ids) ==
  [manifest |-> << [id |-> <<"n","c","x">>, href |-> <<"t","o","c",".","n","c","x">>,
                    media_type |-> "application/x-dtbncx+xml", properties |-> ""] >> \o items,
   spine |-> ids]

(***************************************************************************)
(* _pack_epub: the entries of the output archive.                          *)
(***************************************************************************)

\* The files directly in directory dir (a sequence of directory names).
FilesIn(t, dir) ==
  {q \in DOMAIN t : Len(split(q, "/")) = Len(dir) + 1 /\ Upto(split(q, "/"), Len(dir)) = dir}

\* The sub-directories of dir that hold files.
SubdirsOf(t, dir) ==
  {split(q, "/")[Len(dir) + 1] :
     q \in {x \in DOMAIN t : Len(split(x, "/")) > Len(dir) + 1
                              /\ Upto(split(x, "/"), Len(dir)) = dir}}

\* Every order in which os.walk can yield the files below dir: the files of
\* a directory come sorted, its sub-directories in the order the directory
\* listing happens to give them, which _pack_epub does not sort.
RECURSIVE WalkOrders(_, _)
RECURSIVE SubWalks(_, _, _)
WalkOrders(t, dir) ==
  { sorted(FilesIn(t, dir)) \o rest : rest \in SubWalks(t, dir, SubdirsOf(t, dir)) }

SubWalks(t, dir, subs) ==
  IF subs = {} THEN { << >> }
  ELSE UNION { { w \o rest : w \in WalkOrders(t, Append(dir, d)),
                             rest \in SubWalks(t, dir, subs \ {d}) } : d \in subs }

MimetypePath == <<"m","i","m","e","t","y","p","e">>

\* The archive of a packer that writes every file of the walk as it comes,
\* deflated, with no entry written ahead of the walk.
PackedEntriesAsWalked(t, order) ==
  [k \in 1..Len(order) |->
     [name |-> order[k], compress_type |-> "ZIP_DEFLATED", data |-> t[order[k]]]]

\* The archive _pack_epub writes for one walk order: mimetype first and
\* stored, every other file deflated, the walk's mimetype skipped.
PackedEntries(t, order) ==
  LET others == SelectSeq(order, LAMBDA q : q # MimetypePath)
  IN << [name |-> MimetypePath, compress_type |-> "ZIP_STORED", data |-> t[MimetypePath]] >>
     \o [k \in 1..Len(others) |->
           [name |-> others[k], compress_type |-> "ZIP_DEFLATED", data |-> t[others[k]]]]

(***************************************************************************)
(* The input files the runs are given.                                     *)
(***************************************************************************)

\* A.epub: a well-formed book: two chapters and the image a.png.
bookA ==
  [ is_zipfile |-> TRUE, opens |-> TRUE,
    names |-> << <<"M","E","T","A","-","I","N","F","/","c","o","n","t","a","i","n","e","r",".","x","m","l">>,
                 <<"O","E","B","P","S","/","c","o","n","t","e","n","t",".","o","p","f">>,
                 <<"O","E","B","P","S","/","c","h","1",".","x","h","t","m","l">>,
                 <<"O","E","B","P","S","/","c","h","2",".","x","h","t","m","l">>,
                 <<"O","E","B","P","S","/","a",".","p","n","g">> >>,
    read |->
      \* META-INF/container.xml
      (<<"M","E","T","A","-","I","N","F","/","c","o","n","t","a","i","n","e","r",".","x","m","l">> :>
        [ok |-> TRUE, wellformed |-> TRUE, rootfile |-> Some(<<"O","E","B","P","S","/","c","o","n","t","e","n","t",".","o","p","f">>),
         title |-> << >>, heading |-> << >>, items |-> << >>])
      @@
      \* OEBPS/content.opf
      (<<"O","E","B","P","S","/","c","o","n","t","e","n","t",".","o","p","f">> :>
        [ok |-> TRUE, wellformed |-> TRUE,
         manifest |-> <<[id |-> "c1", href |-> <<"c","h","1",".","x","h","t","m","l">>], [id |-> "c2", href |-> <<"c","h","2",".","x","h","t","m","l">>], [id |-> "i1", href |-> <<"a",".","p","n","g">>]>>,
         spine |-> <<"c1", "c2">>])
      @@
      \* OEBPS/ch1.xhtml
      (<<"O","E","B","P","S","/","c","h","1",".","x","h","t","m","l">> :>
        [ok |-> TRUE, title |-> <<"O","n","e">>, heading |-> <<>>,
         items |-> <<[kind |-> "attr", v |-> <<"a",".","p","n","g">>, css |-> << >>],
                     [kind |-> "attr", v |-> <<"c","h","2",".","x","h","t","m","l">>, css |-> << >>]>>])
      @@
      \* OEBPS/ch2.xhtml
      (<<"O","E","B","P","S","/","c","h","2",".","x","h","t","m","l">> :>
        [ok |-> TRUE, title |-> <<"T","w","o">>, heading |-> <<>>,
         items |-> <<[kind |-> "attr", v |-> <<"a",".","p","n","g">>, css |-> << >>]>>])
      @@
      \* OEBPS/a.png
      (<<"O","E","B","P","S","/","a",".","p","n","g">> :>
        [ok |-> TRUE, bytes |-> 1]) ]

\* B.epub: a well-formed book: two chapters whose spine order is not lexical, and the same image bytes as pic.png.
bookB ==
  [ is_zipfile |-> TRUE, opens |-> TRUE,
    names |-> << <<"M","E","T","A","-","I","N","F","/","c","o","n","t","a","i","n","e","r",".","x","m","l">>,
                 <<"O","E","B","P","S","/","c","o","n","t","e","n","t",".","o","p","f">>,
                 <<"O","E","B","P","S","/","T","e","x","t","/","b","o","d","y",".","x","h","t","m","l">>,
                 <<"O","E","B","P","S","/","T","e","x","t","/","i","n","t","r","o",".","x","h","t","m","l">>,
                 <<"O","E","B","P","S","/","I","m","a","g","e","s","/","p","i","c",".","p","n","g">> >>,
    read |->
      \* META-INF/container.xml
      (<<"M","E","T","A","-","I","N","F","/","c","o","n","t","a","i","n","e","r",".","x","m","l">> :>
        [ok |-> TRUE, wellformed |-> TRUE, rootfile |-> Some(<<"O","E","B","P","S","/","c","o","n","t","e","n","t",".","o","p","f">>),
         title |-> << >>, heading |-> << >>, items |-> << >>])
      @@
      \* OEBPS/content.opf
      (<<"O","E","B","P","S","/","c","o","n","t","e","n","t",".","o","p","f">> :>
        [ok |-> TRUE, wellformed |-> TRUE,
         manifest |-> <<[id |-> "c1", href |-> <<"T","e","x","t","/","i","n","t","r","o",".","x","h","t","m","l">>], [id |-> "c2", href |-> <<"T","e","x","t","/","b","o","d","y",".","x","h","t","m","l">>], [id |-> "i1", href |-> <<"I","m","a","g","e","s","/","p","i","c",".","p","n","g">>]>>,
         spine |-> <<"c1", "c2">>])
      @@
      \* OEBPS/Text/body.xhtml
      (<<"O","E","B","P","S","/","T","e","x","t","/","b","o","d","y",".","x","h","t","m","l">> :>
        [ok |-> TRUE, title |-> <<"F","o","u","r">>, heading |-> <<>>,
         items |-> <<[kind |-> "attr", v |-> <<".",".","/","I","m","a","g","e","s","/","p","i","c",".","p","n","g">>, css |-> << >>]>>])
      @@
      \* OEBPS/Text/intro.xhtml
      (<<"O","E","B","P","S","/","T","e","x","t","/","i","n","t","r","o",".","x","h","t","m","l">> :>
        [ok |-> TRUE, title |-> <<"T","h","r","e","e">>, heading |-> <<>>,
         items |-> <<[kind |-> "attr", v |-> <<".",".","/","I","m","a","g","e","s","/","p","i","c",".","p","n","g">>, css |-> << >>]>>])
      @@
      \* OEBPS/Images/pic.png
      (<<"O","E","B","P","S","/","I","m","a","g","e","s","/","p","i","c",".","p","n","g">> :>
        [ok |-> TRUE, bytes |-> 1]) ]

\* C.epub: a book whose second chapter cannot be read; unmatched and external references; a stylesheet and a font.
bookC ==
  [ is_zipfile |-> TRUE, opens |-> TRUE,
    names |-> << <<"M","E","T","A","-","I","N","F","/","c","o","n","t","a","i","n","e","r",".","x","m","l">>,
                 <<"c","o","n","t","e","n","t",".","o","p","f">>,
                 <<"t","/","p","1",".","x","h","t","m","l">>,
                 <<"t","/","p","2",".","x","h","t","m","l">>,
                 <<"t","/","p","3",".","x","h","t","m","l">>,
                 <<"t","/","i",".","p","n","g">>,
                 <<"f",".","w","o","f","f">>,
                 <<"s",".","c","s","s">> >>,
    read |->
      \* META-INF/container.xml
      (<<"M","E","T","A","-","I","N","F","/","c","o","n","t","a","i","n","e","r",".","x","m","l">> :>
        [ok |-> TRUE, wellformed |-> TRUE, rootfile |-> Some(<<"c","o","n","t","e","n","t",".","o","p","f">>),
         title |-> << >>, heading |-> << >>, items |-> << >>])
      @@
      \* content.opf
      (<<"c","o","n","t","e","n","t",".","o","p","f">> :>
        [ok |-> TRUE, wellformed |-> TRUE,
         manifest |-> <<[id |-> "p1", href |-> <<"t","/","p","1",".","x","h","t","m","l">>], [id |-> "p2", href |-> <<"t","/","p","2",".","x","h","t","m","l">>], [id |-> "p3", href |-> <<"t","/","p","3",".","x","h","t","m","l">>]>>,
         spine |-> <<"p1", "p2", "p3">>])
      @@
      \* t/p1.xhtml
      (<<"t","/","p","1",".","x","h","t","m","l">> :>
        [ok |-> TRUE, title |-> <<>>, heading |-> <<"S","t","a","r","t">>,
         items |-> <<[kind |-> "attr", v |-> <<"p","2",".","x","h","t","m","l","#","s">>, css |-> << >>],
                     [kind |-> "attr", v |-> <<"m","i","s","s","i","n","g",".","p","n","g">>, css |-> << >>],
                     [kind |-> "attr", v |-> <<"h","t","t","p",":","/","/","e",".","o","r","g","/","a",".","p","n","g">>, css |-> << >>],
                     [kind |-> "srcset", v |-> <<"i",".","p","n","g"," ","1","x",","," ","m","i","s","s","i","n","g",".","p","n","g"," ","2","x">>, css |-> << >>],
                     [kind |-> "style", v |-> << >>, css |-> <<[kind |-> "url", u |-> <<"i",".","p","n","g">>], [kind |-> "url", u |-> <<"n","o","p","e",".","p","n","g">>]>>]>>])
      @@
      \* t/p2.xhtml
      (<<"t","/","p","2",".","x","h","t","m","l">> :>
        [ok |-> FALSE, title |-> <<"L","o","s","t">>, heading |-> <<>>,
         items |-> <<>>])
      @@
      \* t/p3.xhtml
      (<<"t","/","p","3",".","x","h","t","m","l">> :>
        [ok |-> TRUE, title |-> <<>>, heading |-> <<>>,
         items |-> <<[kind |-> "attr", v |-> <<".",".","/","s",".","c","s","s">>, css |-> << >>],
                     [kind |-> "styleblock", v |-> << >>, css |-> <<[kind |-> "url", u |-> <<"g","o","n","e",".","p","n","g">>]>>]>>])
      @@
      \* t/i.png
      (<<"t","/","i",".","p","n","g">> :>
        [ok |-> TRUE, bytes |-> 2])
      @@
      \* f.woff
      (<<"f",".","w","o","f","f">> :>
        [ok |-> TRUE, bytes |-> 3])
      @@
      \* s.css
      (<<"s",".","c","s","s">> :>
        [ok |-> TRUE, body |-> 1,
         refs |-> <<[kind |-> "url", u |-> <<"t","/","i",".","p","n","g">>], [kind |-> "url", u |-> <<"f",".","w","o","f","f">>], [kind |-> "url", u |-> <<"n","o","w","h","e","r","e",".","p","n","g">>], [kind |-> "import", u |-> <<"h","t","t","p",":","/","/","e",".","o","r","g","/","x",".","c","s","s">>]>>]) ]

\* D.epub: a book whose image cannot be read.
bookD ==
  [ is_zipfile |-> TRUE, opens |-> TRUE,
    names |-> << <<"d",".","x","h","t","m","l">>,
                 <<"d",".","j","p","g">> >>,
    read |->
      \* d.xhtml
      (<<"d",".","x","h","t","m","l">> :>
        [ok |-> TRUE, title |-> <<"D">>, heading |-> <<>>,
         items |-> <<[kind |-> "attr", v |-> <<"d",".","j","p","g">>, css |-> << >>]>>])
      @@
      \* d.jpg
      (<<"d",".","j","p","g">> :>
        [ok |-> FALSE, bytes |-> 4]) ]

\* E.epub: malformed container and package XML; the image bytes of bookA twice; an original navigation document.
bookE ==
  [ is_zipfile |-> TRUE, opens |-> TRUE,
    names |-> << <<"M","E","T","A","-","I","N","F","/","c","o","n","t","a","i","n","e","r",".","x","m","l">>,
                 <<"x","/","p","k","g",".","o","p","f">>,
                 <<"x","/","b",".","h","t","m","l">>,
                 <<"x","/","a",".","h","t","m","l">>,
                 <<"x","/","n","a","v",".","x","h","t","m","l">>,
                 <<"x","/","o","n","e",".","p","n","g">>,
                 <<"x","/","t","w","o",".","p","n","g">>,
                 <<"x","/","e",".","c","s","s">> >>,
    read |->
      \* META-INF/container.xml
      (<<"M","E","T","A","-","I","N","F","/","c","o","n","t","a","i","n","e","r",".","x","m","l">> :>
        [ok |-> TRUE, wellformed |-> FALSE, rootfile |-> None,
         title |-> << >>, heading |-> << >>, items |-> << >>])
      @@
      \* x/pkg.opf
      (<<"x","/","p","k","g",".","o","p","f">> :>
        [ok |-> TRUE, wellformed |-> FALSE,
         manifest |-> <<>>,
         spine |-> <<>>])
      @@
      \* x/b.html
      (<<"x","/","b",".","h","t","m","l">> :>
        [ok |-> TRUE, title |-> <<"B","e","e">>, heading |-> <<>>,
         items |-> <<[kind |-> "attr", v |-> <<"t","w","o",".","p","n","g">>, css |-> << >>]>>])
      @@
      \* x/a.html
      (<<"x","/","a",".","h","t","m","l">> :>
        [ok |-> TRUE, title |-> <<"A","y">>, heading |-> <<>>,
         items |-> <<[kind |-> "attr", v |-> <<"o","n","e",".","p","n","g">>, css |-> << >>],
                     [kind |-> "attr", v |-> <<"e",".","c","s","s">>, css |-> << >>]>>])
      @@
      \* x/nav.xhtml
      (<<"x","/","n","a","v",".","x","h","t","m","l">> :>
        [ok |-> TRUE, title |-> <<"N","a","v">>, heading |-> <<>>,
         items |-> <<[kind |-> "attr", v |-> <<"a",".","h","t","m","l">>, css |-> << >>]>>])
      @@
      \* x/one.png
      (<<"x","/","o","n","e",".","p","n","g">> :>
        [ok |-> TRUE, bytes |-> 1])
      @@
      \* x/two.png
      (<<"x","/","t","w","o",".","p","n","g">> :>
        [ok |-> TRUE, bytes |-> 1])
      @@
      \* x/e.css
      (<<"x","/","e",".","c","s","s">> :>
        [ok |-> TRUE, body |-> 2,
         refs |-> <<[kind |-> "url", u |-> <<"o","n","e",".","p","n","g">>]>>]) ]

\* F.epub: two entries that differ only in slash against backslash, and a spine
\* that lists b.xhtml percent-encoded (%62 is "b") and then one of the two.
bookF ==
  [ is_zipfile |-> TRUE, opens |-> TRUE,
    names |-> << <<"c","o","n","t","e","n","t",".","o","p","f">>,
                 <<"b",".","x","h","t","m","l">>,
                 <<"t","/","c",".","x","h","t","m","l">>,
                 <<"t","\\","c",".","x","h","t","m","l">> >>,
    read |->
      \* content.opf
      (<<"c","o","n","t","e","n","t",".","o","p","f">> :>
        [ok |-> TRUE, wellformed |-> TRUE,
         manifest |-> <<[id |-> "b", href |-> <<"%","6","2",".","x","h","t","m","l">>], [id |-> "c", href |-> <<"t","/","c",".","x","h","t","m","l">>]>>,
         spine |-> <<"b", "c">>])
      @@
      \* b.xhtml
      (<<"b",".","x","h","t","m","l">> :>
        [ok |-> TRUE, title |-> <<"B","e","e">>, heading |-> <<>>,
         items |-> <<>>])
      @@
      \* t/c.xhtml
      (<<"t","/","c",".","x","h","t","m","l">> :>
        [ok |-> TRUE, title |-> <<"S","l","a","s","h">>, heading |-> <<>>,
         items |-> <<>>])
      @@
      \* t\c.xhtml
      (<<"t","\\","c",".","x","h","t","m","l">> :>
        [ok |-> TRUE, title |-> <<"B","a","c","k","s","l","a","s","h">>, heading |-> <<>>,
         items |-> <<>>]) ]

\* N.txt: not a ZIP archive.
notZip ==
  [ is_zipfile |-> FALSE, opens |-> FALSE,
    names |-> << >>, read |-> EmptyDict ]

\* X.epub: a ZIP end record but a corrupt central directory: is_zipfile accepts it, ZipFile() raises.
badDir ==
  [ is_zipfile |-> TRUE, opens |-> FALSE,
    names |-> << >>, read |-> EmptyDict ]

\* The files the caller can name, by path.
InputFiles ==
  ("A.epub" :> bookA) @@ ("B.epub" :> bookB) @@ ("C.epub" :> bookC) @@ ("D.epub" :> bookD) @@ ("E.epub" :> bookE) @@ ("F.epub" :> bookF) @@ ("N.txt" :> notZip) @@ ("X.epub" :> badDir)

(***************************************************************************)
(* combine_epubs as a state machine.  pc is the position of the call; the  *)
(* other variables are its arguments, its locals (archive is the open      *)
(* ZipFile zf), the working directory, the destination file and the calls  *)
(* made to progress_callback.                                              *)
(*                                                                         *)
(* result is "ok" after the return statement, or the exception that left   *)
(* the call.  origin, orders and consults record what happened (which      *)
(* entry each spine item came from, the content order chosen for each      *)
(* source, the lookups the rewriter made); run and first serve the         *)
(* specification that runs the same inputs a second time; fn_in and fn_out *)
(* hold the argument and the results of a helper function in the           *)
(* specifications that exercise the helpers on their own.                  *)
(***************************************************************************)

VARIABLES epub_paths, cfg, pc, tmp_dir, tree, epub_idx, archive, html_counter,
          image_names_used, font_names_used, style_names_used,
          manifest_items, spine_ids, spine_labels, ordered_content, mapper,
          content_new_name, start_num, content_i, dest, progress, result,
          origin, orders, consults, run, first, fn_in, fn_out

vars == << epub_paths, cfg, pc, tmp_dir, tree, epub_idx, archive, html_counter,
           image_names_used, font_names_used, style_names_used,
           manifest_items, spine_ids, spine_labels, ordered_content, mapper,
           content_new_name, start_num, content_i, dest, progress, result,
           origin, orders, consults, run, first, fn_in, fn_out >>

\* The largest number of source paths a run is given.
MaxSources == 2

\* The settings a run can be given.
Configs ==
  [use_chapter_titles_in_toc : BOOLEAN, exclude_nav_docs : BOOLEAN,
   exclude_toc_docs : BOOLEAN]

\* The sequences over S of length at most n.
SeqsUpTo(S, n) == UNION { [1..k -> S] : k \in 0..n }

NoFile == [state |-> "absent", entries |-> << >>]

\* No archive is open.
NoArchive == [is_zipfile |-> FALSE, opens |-> FALSE, names |-> << >>, read |-> EmptyDict]

\* The state of a call that has not started (the inputs apart).
Fresh ==
  /\ pc = "start"
  /\ tmp_dir = "none"
  /\ tree = EmptyDict
  /\ epub_idx = 1
  /\ archive = NoArchive
  /\ html_counter = 0
  /\ image_names_used = EmptyDict
  /\ font_names_used = EmptyDict
  /\ style_names_used = EmptyDict
  /\ manifest_items = << >>
  /\ spine_ids = << >>
  /\ spine_labels = << >>
  /\ ordered_content = << >>
  /\ mapper = AssetMapper_init
  /\ content_new_name = EmptyDict
  /\ start_num = 0
  /\ content_i = 0
  /\ dest = NoFile
  /\ progress = << >>
  /\ result = "none"
  /\ origin = << >>
  /\ orders = << >>
  /\ consults = {}

Init ==
  /\ epub_paths \in SeqsUpTo(DOMAIN InputFiles, MaxSources)
  /\ cfg \in Configs
  /\ Fresh
  /\ run = 1
  /\ first = NoFile
  /\ fn_in = << >>
  /\ fn_out = << >>

\* The file at the path the loop is at.
epub_path == InputFiles[epub_paths[epub_idx]]

\* The entries of the open archive that satisfy Test, in archive order.
Entries(Test(_)) == SelectSeq(archive.names, Test)

inputs == << epub_paths, cfg, run, first, fn_in, fn_out >>
counters == << html_counter, image_names_used, font_names_used, style_names_used >>
book == << manifest_items, spine_ids, spine_labels, origin >>
source == << archive, ordered_content, mapper, content_new_name, start_num, content_i >>

\* tempfile.mkdtemp succeeds.
MakeTempDir ==
  /\ pc = "start"
  /\ tmp_dir' = "held"
  /\ pc' = "mkdirs"
  /\ UNCHANGED << inputs, counters, book, source, tree, epub_idx, dest, progress,
                  result, orders, consults >>

\* tempfile.mkdtemp raises: the call ends before the try block is entered.
MakeTempDirFails ==
  /\ pc = "start"
  /\ result' = "OSError"
  /\ pc' = "returned"
  /\ UNCHANGED << inputs, counters, book, source, tmp_dir, tree, epub_idx, dest,
                  progress, orders, consults >>

\* The five os.makedirs calls and the initialisation of the counters.
MakeDirs ==
  /\ pc = "mkdirs"
  /\ pc' = "loop"
  /\ UNCHANGED << inputs, counters, book, source, tmp_dir, tree, epub_idx, dest,
                  progress, result, orders, consults >>

\* The quotient scaled by 1000 instead of 100.
LoopProgressPerMille == ((epub_idx - 1) * 1000) \div Len(epub_paths)

\* int((epub_idx / total_epubs) * 100) for the 0-based index epub_idx - 1.
\* (The float product equals the exact quotient's floor for the totals used.)
LoopProgress == ((epub_idx - 1) * 100) \div Len(epub_paths)

AtSource == pc = "loop" /\ epub_idx <= Len(epub_paths)

\* zipfile.is_zipfile says no: continue with the next path.
SkipInvalid ==
  /\ AtSource
  /\ ~epub_path.is_zipfile
  /\ progress' = Append(progress, LoopProgress)
  /\ epub_idx' = epub_idx + 1
  /\ UNCHANGED << inputs, counters, book, source, pc, tmp_dir, tree, dest, result,
                  orders, consults >>

\* zipfile.is_zipfile says yes but ZipFile() raises BadZipFile: nothing in
\* combine_epubs catches it.
OpenFails ==
  /\ AtSource
  /\ epub_path.is_zipfile /\ ~epub_path.opens
  /\ progress' = Append(progress, LoopProgress)
  /\ result' = "BadZipFile"
  /\ pc' = "cleanup"
  /\ UNCHANGED << inputs, counters, book, source, tmp_dir, tree, epub_idx, dest,
                  orders, consults >>

\* The archive opens: spine order, all_content, the matching loop, a new mapper.
ResolveOrder ==
  /\ AtSource
  /\ epub_path.is_zipfile /\ epub_path.opens
  /\ archive' = epub_path
  /\ progress' = Append(progress, LoopProgress)
  /\ \E oc \in OrderedContentChoices(
                 _get_spine_order(archive'),
                 Range(all_content(archive', cfg.exclude_nav_docs, cfg.exclude_toc_docs)),
                 << >>) :
        /\ ordered_content' = oc
        /\ orders' = Append(orders, [src |-> epub_idx, start |-> html_counter,
                                     ordered |-> oc])
  /\ mapper' = AssetMapper_init
  /\ pc' = "images"
  /\ UNCHANGED << inputs, counters, book, content_new_name, start_num, content_i,
                  tmp_dir, tree, epub_idx, dest, result, consults >>

\* Fixed names of the output layout.
CHAPTER_ == <<"c","h","a","p","t","e","r","_">>
TEXT_ == <<"T","e","x","t","/">>
OEBPS_TEXT == <<"O","E","B","P","S","/","T","e","x","t","/">>
OEBPS_STYLES == <<"O","E","B","P","S","/","S","t","y","l","e","s","/">>
NAV == <<"n","a","v">>
NAV_XHTML == <<"n","a","v",".","x","h","t","m","l">>
TEXT_NAV == <<"T","e","x","t","/","n","a","v",".","x","h","t","m","l">>
CONTAINER_XML == <<"M","E","T","A","-","I","N","F","/","c","o","n","t","a","i","n","e","r",".","x","m","l">>
OEBPS_CONTENT_OPF == <<"O","E","B","P","S","/","c","o","n","t","e","n","t",".","o","p","f">>
OEBPS_TOC_NCX == <<"O","E","B","P","S","/","t","o","c",".","n","c","x">>

\* The state the collecting loops thread through.
LoopState(used) ==
  [used |-> used, manifest_items |-> manifest_items, tree |-> tree,
   mapper |-> mapper, consults |-> {}]

\* The lookups cs, made for source src while writing a file of directory dir.
Logged(cs, src, dir) ==
  { [src |-> src, where |-> dir, kind |-> c.kind, path |-> c.path, orig |-> c.orig,
     found |-> c.found, out |-> c.out] : c \in cs }

AllReadable(names) == \A k \in 1..Len(names) : CanRead(archive, names[k])

\* The image loop, every image entry being readable.
CollectImages ==
  /\ pc = "images"
  /\ AllReadable(Entries(_is_image_file))
  /\ \E st \in { CollectAssets(Entries(_is_image_file), LoopState(image_names_used),
                                archive, ImageClass) } :
        /\ image_names_used' = st.used
        /\ manifest_items' = st.manifest_items
        /\ tree' = st.tree
        /\ mapper' = st.mapper
  /\ pc' = "fonts"
  /\ UNCHANGED << inputs, html_counter, font_names_used, style_names_used, spine_ids,
                  spine_labels, origin, archive, ordered_content, content_new_name,
                  start_num, content_i, tmp_dir, epub_idx, dest, progress, result,
                  orders, consults >>

\* The font loop, every font entry being readable.
CollectFonts ==
  /\ pc = "fonts"
  /\ AllReadable(Entries(_is_font_file))
  /\ \E st \in { CollectAssets(Entries(_is_font_file), LoopState(font_names_used),
                                archive, FontClass) } :
        /\ font_names_used' = st.used
        /\ manifest_items' = st.manifest_items
        /\ tree' = st.tree
        /\ mapper' = st.mapper
  /\ pc' = "styles"
  /\ UNCHANGED << inputs, html_counter, image_names_used, style_names_used, spine_ids,
                  spine_labels, origin, archive, ordered_content, content_new_name,
                  start_num, content_i, tmp_dir, epub_idx, dest, progress, result,
                  orders, consults >>

\* mapper.finalize() and the stylesheet loop, every stylesheet being readable.
CollectStylesheets ==
  /\ pc = "styles"
  /\ AllReadable(Entries(_is_style_file))
  /\ \E st \in { CollectStyles(
                    Entries(_is_style_file),
                    [LoopState(style_names_used) EXCEPT !.mapper = AssetMapper_finalize(@)],
                    archive) } :
        /\ style_names_used' = st.used
        /\ manifest_items' = st.manifest_items
        /\ tree' = st.tree
        /\ mapper' = st.mapper
        /\ consults' = consults \cup Logged(st.consults, epub_idx, OEBPS_STYLES)
  /\ pc' = "names"
  /\ UNCHANGED << inputs, html_counter, image_names_used, font_names_used, spine_ids,
                  spine_labels, origin, archive, ordered_content, content_new_name,
                  start_num, content_i, tmp_dir, epub_idx, dest, progress, result,
                  orders >>

\* zf.read raises on an image, font or stylesheet entry: the three loops have
\* no handler, the exception leaves combine_epubs through the finally clause.
AssetUnreadable ==
  /\ \/ pc = "images" /\ ~AllReadable(Entries(_is_image_file))
     \/ pc = "fonts" /\ ~AllReadable(Entries(_is_font_file))
     \/ pc = "styles" /\ ~AllReadable(Entries(_is_style_file))
  /\ result' = "BadZipFile"
  /\ pc' = "cleanup"
  /\ UNCHANGED << inputs, counters, book, source, tmp_dir, tree, epub_idx, dest,
                  progress, orders, consults >>

\* start_num, content_new_name, the content mappings, mapper.finalize().
AssignNames ==
  /\ pc = "names"
  /\ start_num' = html_counter
  /\ content_new_name' = ContentNewName(ordered_content, html_counter)
  /\ mapper' = AssetMapper_finalize(
                 AddContentMappings(ordered_content, content_new_name', mapper))
  /\ content_i' = 1
  /\ pc' = "content"
  /\ UNCHANGED << inputs, counters, book, archive, ordered_content, tmp_dir, tree,
                  epub_idx, dest, progress, result, orders, consults >>

AtContent == pc = "content" /\ content_i <= Len(ordered_content)

content_name == ordered_content[content_i]

\* One turn of the content loop for an entry that can be read.
EmitContent ==
  /\ AtContent
  /\ CanRead(archive, content_name)
  /\ \E num \in { start_num + content_i },
        new_filename \in { content_new_name[content_name] },
        text \in { archive.read[content_name] },
        doc_label \in { _extract_doc_label(archive.read[content_name]) },
        out \in { _rewrite_asset_refs(archive.read[content_name], mapper, content_name) } :
        /\ tree' = Put(tree, OEBPS_TEXT \o new_filename, out)
        /\ manifest_items' =
             Append(manifest_items,
                    [id |-> CHAPTER_ \o str(num), href |-> TEXT_ \o new_filename,
                     media_type |-> "application/xhtml+xml", properties |-> ""])
        /\ spine_ids' = Append(spine_ids, CHAPTER_ \o str(num))
        /\ spine_labels' =
             Append(spine_labels,
                    IF cfg.use_chapter_titles_in_toc /\ doc_label # << >>
                    THEN doc_label ELSE SectionLabel(num))
        /\ origin' = Append(origin, [src |-> epub_idx, name |-> content_name, num |-> num])
        /\ consults' = consults \cup Logged(TextConsults(text, out, mapper, content_name),
                                           epub_idx, OEBPS_TEXT)
  /\ content_i' = content_i + 1
  /\ UNCHANGED << inputs, counters, archive, ordered_content, mapper, content_new_name,
                  start_num, pc, tmp_dir, epub_idx, dest, progress, result, orders >>

\* The read raises and the loop is left (break): the rest of the source is dropped.
SkipContentAndRest ==
  /\ AtContent
  /\ ~CanRead(archive, content_name)
  /\ content_i' = Len(ordered_content) + 1
  /\ UNCHANGED << inputs, counters, book, archive, ordered_content, mapper,
                  content_new_name, start_num, pc, tmp_dir, tree, epub_idx, dest,
                  progress, result, orders, consults >>

\* One turn of the content loop for an entry whose read raises: continue.
SkipContent ==
  /\ AtContent
  /\ ~CanRead(archive, content_name)
  /\ content_i' = content_i + 1
  /\ UNCHANGED << inputs, counters, book, archive, ordered_content, mapper,
                  content_new_name, start_num, pc, tmp_dir, tree, epub_idx, dest,
                  progress, result, orders, consults >>

\* The end of a source that leaves html_counter as it was.
EndSourceSameCounter ==
  /\ pc = "content" /\ content_i > Len(ordered_content)
  /\ html_counter' = html_counter
  /\ archive' = NoArchive
  /\ epub_idx' = epub_idx + 1
  /\ pc' = "loop"
  /\ UNCHANGED << inputs, image_names_used, font_names_used, style_names_used, book,
                  ordered_content, mapper, content_new_name, start_num, content_i,
                  tmp_dir, tree, dest, progress, result, orders, consults >>

\* The content loop is over: html_counter advances by the length of
\* ordered_content, the archive is closed, the next path is taken.
EndSource ==
  /\ pc = "content" /\ content_i > Len(ordered_content)
  /\ html_counter' = start_num + Len(ordered_content)
  /\ archive' = NoArchive
  /\ epub_idx' = epub_idx + 1
  /\ pc' = "loop"
  /\ UNCHANGED << inputs, image_names_used, font_names_used, style_names_used, book,
                  ordered_content, mapper, content_new_name, start_num, content_i,
                  tmp_dir, tree, dest, progress, result, orders, consults >>

\* The loop over the paths is over: progress_callback(90, ...).
StartPackage ==
  /\ pc = "loop" /\ epub_idx > Len(epub_paths)
  /\ progress' = Append(progress, 90)
  /\ pc' = "package"
  /\ UNCHANGED << inputs, counters, book, source, tmp_dir, tree, epub_idx, dest,
                  result, orders, consults >>

\* nav.xhtml and its manifest item, mimetype, container.xml, content.opf, toc.ncx.
BuildPackage ==
  /\ pc = "package"
  /\ manifest_items' =
       Append(manifest_items,
              [id |-> NAV, href |-> TEXT_NAV,
               media_type |-> "application/xhtml+xml", properties |-> "nav"])
  /\ tree' =
       Put(Put(Put(Put(Put(tree,
         OEBPS_TEXT \o NAV_XHTML, _build_nav_xhtml(spine_labels)),
         MimetypePath, [text |-> "application/epub+zip"]),
         CONTAINER_XML, [rootfile |-> OEBPS_CONTENT_OPF]),
         OEBPS_CONTENT_OPF, _build_content_opf(manifest_items', spine_ids)),
         OEBPS_TOC_NCX, _build_toc_ncx(spine_ids, spine_labels))
  /\ pc' = "pack_open"
  /\ UNCHANGED << inputs, counters, spine_ids, spine_labels, origin, source, tmp_dir,
                  epub_idx, dest, progress, result, orders, consults >>

\* _pack_epub: ZipFile(output_path, 'w') creates (or truncates) the destination.
PackOpen ==
  /\ pc = "pack_open"
  /\ dest' = [state |-> "partial", entries |-> << >>]
  /\ pc' = "pack_write"
  /\ UNCHANGED << inputs, counters, book, source, tmp_dir, tree, epub_idx, progress,
                  result, orders, consults >>

\* _pack_epub: every zf.write succeeds and the archive is closed.
PackWrite ==
  /\ pc = "pack_write"
  /\ \E order \in WalkOrders(tree, << >>) :
        dest' = [state |-> "complete", entries |-> PackedEntries(tree, order)]
  /\ pc' = "finish"
  /\ UNCHANGED << inputs, counters, book, source, tmp_dir, tree, epub_idx, progress,
                  result, orders, consults >>

\* _pack_epub: a zf.write raises (disk full, I/O error).  Neither _pack_epub
\* nor combine_epubs removes the file ZipFile() created.
PackFails ==
  /\ pc = "pack_write"
  /\ result' = "OSError"
  /\ pc' = "cleanup"
  /\ UNCHANGED << inputs, counters, book, source, tmp_dir, tree, epub_idx, dest,
                  progress, orders, consults >>

\* A step that writes into the working directory, or that creates the
\* destination file, raises OSError.
WriteFails ==
  /\ \/ pc \in {"mkdirs", "package", "pack_open"}
     \/ pc = "images" /\ Entries(_is_image_file) # << >>
     \/ pc = "fonts" /\ Entries(_is_font_file) # << >>
     \/ pc = "styles" /\ Entries(_is_style_file) # << >>
     \/ AtContent /\ CanRead(archive, content_name)
  /\ result' = "OSError"
  /\ pc' = "cleanup"
  /\ UNCHANGED << inputs, counters, book, source, tmp_dir, tree, epub_idx, dest,
                  progress, orders, consults >>

\* progress_callback(100, ...) and the return statement.
Finish ==
  /\ pc = "finish"
  /\ progress' = Append(progress, 100)
  /\ result' = "ok"
  /\ pc' = "cleanup"
  /\ UNCHANGED << inputs, counters, book, source, tmp_dir, tree, epub_idx, dest,
                  orders, consults >>

\* The end of a call whose rmtree stands after the return value is computed
\* instead of in a finally clause: an exception leaves the directory behind.
CleanupOnSuccessOnly ==
  /\ pc = "cleanup"
  /\ archive' = NoArchive
  /\ tmp_dir' = IF result = "ok" THEN "released" ELSE tmp_dir
  /\ tree' = IF result = "ok" THEN EmptyDict ELSE tree
  /\ pc' = "returned"
  /\ UNCHANGED << inputs, counters, book, ordered_content, mapper, content_new_name,
                  start_num, content_i, epub_idx, dest, progress, result, orders,
                  consults >>

\* The with block closes the archive if one is open, then
\* finally: shutil.rmtree(tmp_dir, ignore_errors=True); the call is over.
Cleanup ==
  /\ pc = "cleanup"
  /\ archive' = NoArchive
  /\ tmp_dir' = "released"
  /\ tree' = EmptyDict
  /\ pc' = "returned"
  /\ UNCHANGED << inputs, counters, book, ordered_content, mapper, content_new_name,
                  start_num, content_i, epub_idx, dest, progress, result, orders,
                  consults >>

Next ==
  \/ MakeTempDir \/ MakeTempDirFails \/ MakeDirs
  \/ SkipInvalid \/ OpenFails \/ ResolveOrder
  \/ CollectImages \/ CollectFonts \/ CollectStylesheets \/ AssetUnreadable
  \/ AssignNames \/ EmitContent \/ SkipContent \/ EndSource
  \/ StartPackage \/ BuildPackage \/ PackOpen \/ PackWrite \/ PackFails
  \/ WriteFails \/ Finish \/ Cleanup

Spec == Init /\ [][Next]_vars

\* The largest number of source paths for which a second call is explored.
MaxRerunSources == 1

\* A second call with the same arguments, after a first that succeeded; the
\* archive the first call wrote is kept in first.
Rerun ==
  /\ pc = "returned" /\ result = "ok" /\ run = 1
  /\ Len(epub_paths) <= MaxRerunSources
  /\ run' = 2
  /\ first' = dest
  /\ pc' = "start"
  /\ tmp_dir' = "none"
  /\ tree' = EmptyDict
  /\ epub_idx' = 1
  /\ archive' = NoArchive
  /\ html_counter' = 0
  /\ image_names_used' = EmptyDict
  /\ font_names_used' = EmptyDict
  /\ style_names_used' = EmptyDict
  /\ manifest_items' = << >>
  /\ spine_ids' = << >>
  /\ spine_labels' = << >>
  /\ ordered_content' = << >>
  /\ mapper' = AssetMapper_init
  /\ content_new_name' = EmptyDict
  /\ start_num' = 0
  /\ content_i' = 0
  /\ dest' = NoFile
  /\ progress' = << >>
  /\ result' = "none"
  /\ origin' = << >>
  /\ orders' = << >>
  /\ consults' = {}
  /\ UNCHANGED << epub_paths, cfg, fn_in, fn_out >>

NextTwoRuns == Next \/ Rerun

SpecTwoRuns == Init /\ [][NextTwoRuns]_vars

(***************************************************************************)
(* What the properties below speak of.                                     *)
(***************************************************************************)

\* The call has returned by its return statement / by an exception.
Succeeded == pc = "returned" /\ result = "ok"
Failed == pc = "returned" /\ result \notin {"none", "ok"}

\* The entry names of the written archive, and the data of the entry named n.
ArchiveNames == { dest.entries[k].name : k \in 1..Len(dest.entries) }
ArchiveData(n) == dest.entries[CHOOSE k \in 1..Len(dest.entries) : dest.entries[k].name = n].data

\* The content files of the written archive (the navigation document apart).
ContentFiles ==
  { n \in ArchiveNames : startswith(n, OEBPS_TEXT) /\ n # OEBPS_TEXT \o NAV_XHTML }

\* The archive entry "OEBPS/Text/<n>.xhtml".
NumberedFile(n) == OEBPS_TEXT \o str(n) \o <<".","x","h","t","m","l">>

\* The k-th source is an archive the loop processes.
ValidSource(k) == InputFiles[epub_paths[k]].is_zipfile /\ InputFiles[epub_paths[k]].opens

\* The qualifying content entries of the k-th source.
Qualifying(k) ==
  Range(all_content(InputFiles[epub_paths[k]], cfg.exclude_nav_docs, cfg.exclude_toc_docs))

\* Those of them that can be read.
Readable(k) == { c \in Qualifying(k) : CanRead(InputFiles[epub_paths[k]], c) }

\* The number of qualifying content entries of the first k sources.
RECURSIVE QualifyingUpTo(_)
QualifyingUpTo(k) ==
  IF k = 0 THEN 0
  ELSE QualifyingUpTo(k - 1) + (IF ValidSource(k) THEN Cardinality(Qualifying(k)) ELSE 0)

\* Some source holds a qualifying content entry that cannot be read.
SomeUnreadableContent ==
  \E k \in 1..Len(epub_paths) : ValidSource(k) /\ Readable(k) # Qualifying(k)

(***************************************************************************)
(* C1  Numbering continuity.                                               *)
(***************************************************************************)

\* C1: after a successful combine the content files of the output are exactly
\* 1.xhtml .. N.xhtml, N being the number of qualifying content entries of
\* all the sources, whatever the sources (invalid archives and unreadable
\* content entries included).
C1_NumberingContinuity ==
  Succeeded =>
    ContentFiles = { NumberedFile(n) : n \in 1..QualifyingUpTo(Len(epub_paths)) }

(***************************************************************************)
(* C2  Spine fidelity.                                                     *)
(***************************************************************************)

\* The entries the combined spine took from the k-th source, in spine order.
SpineOf(k) ==
  [j \in 1..Len(SelectSeq(origin, LAMBDA o : o.src = k)) |->
     SelectSeq(origin, LAMBDA o : o.src = k)[j].name]

\* The combined spine goes through the sources in the caller's order.
SpineInSourceOrder ==
  \A a, b \in 1..Len(origin) : a < b => origin[a].src <= origin[b].src

\* The resolved package-document spine of the k-th source.
SpineOrder(k) == _get_spine_order(InputFiles[epub_paths[k]])

\* The first spine position that lists entry c, 0 when none does.
FirstSpinePos(k, c) == FirstIndex(SpineOrder(k), LAMBDA sp : SpineMatches(c, sp))

\* The sequences of distinct elements of S of length at most n.
DistinctSeqs(S, n) ==
  { t \in SeqsUpTo(S, n) : \A a, b \in 1..Len(t) : a # b => t[a] # t[b] }

\* taken is a way the spine sp can take entries of q: each spine item, in
\* turn, takes one entry not yet taken that equals it exactly or once
\* backslashes are replaced by slashes, and takes none only when there is none.
TakenBySpine(q, sp, taken) ==
  \E pos \in [1..Len(taken) -> 1..Len(sp)] :
    /\ \A a, b \in 1..Len(taken) : a < b => pos[a] < pos[b]
    /\ \A a \in 1..Len(taken) : SpineMatches(taken[a], sp[pos[a]])
    /\ \A j \in (1..Len(sp)) \ Range(pos) :
         ~\E c \in q \ { taken[a] : a \in { x \in 1..Len(taken) : pos[x] < j } } :
            SpineMatches(c, sp[j])

\* seq is an order the claim allows for the k-th source: every qualifying
\* entry once, first those the spine items take, in spine order, then the
\* others in lexical order.
StatedOrder(k, seq) ==
  \E taken \in DistinctSeqs(Qualifying(k), Len(SpineOrder(k))) :
    /\ TakenBySpine(Qualifying(k), SpineOrder(k), taken)
    /\ seq = taken \o sorted(Qualifying(k) \ Range(taken))

AmendedOrder(k, seq) ==
  \E taken \in DistinctSeqs(Qualifying(k), Len(SpineOrder(k))) :
    /\ TakenBySpine(Qualifying(k), SpineOrder(k), taken)
    /\ seq = SelectSeq(taken \o sorted(Qualifying(k) \ Range(taken)),
                       LAMBDA c : c \in Readable(k))

IMAGES_ == <<".",".","/","I","m","a","g","e","s","/">>
OEBPS_IMAGES == <<"O","E","B","P","S","/","I","m","a","g","e","s","/">>

\* The image entries of the k-th source, and the bytes of one of them.
ImageEntries(k) == { n \in Range(InputFiles[epub_paths[k]].names) : _is_image_file(n) }
ImageBytes(k, n) == InputFiles[epub_paths[k]].read[n].bytes

\* The image contents held by the sources the loop processes.
ImageContents ==
  UNION { { ImageBytes(k, n) : n \in ImageEntries(k) } :
          k \in { j \in 1..Len(epub_paths) : ValidSource(j) } }

\* The image files of the written archive.
ImageFiles == { n \in ArchiveNames : startswith(n, OEBPS_IMAGES) }

\* The archive entry a looked-up reference names: its path part, resolved
\* against the directory of the file it stands in.
RefTarget(c) ==
  With(Path_parent(c.path), LAMBDA dir :
  With(strip(_split_ref_suffix(strip(c.orig))[1]), LAMBDA base :
    _posix_norm(IF dir = <<".">> THEN base ELSE dir \o <<"/">> \o base)))

\* The part of a looked-up reference from its first "?" or "#".
RefSuffix(c) == _split_ref_suffix(strip(c.orig))[2]

\* The looked-up references that name an image entry of their own source.
ImageRefs == { c \in consults : RefTarget(c) \in ImageEntries(c.src) }

\* C3: within one run the output path of an image is a function of its bytes
\* alone: every reference to an image entry, of whatever source and under
\* whatever name, has been rewritten to ../Images/<the name assigned to the
\* entry's bytes>, and a successful run's output holds exactly one image
\* file per distinct image content of the sources, holding that content.
C3_ImageDedup ==
  /\ \A c \in ImageRefs :
       With(ImageBytes(c.src, RefTarget(c)), LAMBDA h :
         /\ h \in DOMAIN image_names_used
         /\ c.out = IMAGES_ \o image_names_used[h] \o RefSuffix(c))
  /\ Succeeded =>
       /\ DOMAIN image_names_used = ImageContents
       /\ ImageFiles = { OEBPS_IMAGES \o image_names_used[h] : h \in ImageContents }
       /\ Cardinality(ImageFiles) = Cardinality(ImageContents)
       /\ \A h \in ImageContents :
            ArchiveData(OEBPS_IMAGES \o image_names_used[h]) = [bytes |-> h]

\* A successful run over two sources that hold the same image bytes under
\* different names, each with a reference to its image that was looked up.
C3_Witness ==
  /\ Succeeded
  /\ Len(epub_paths) = 2
  /\ \E c1, c2 \in ImageRefs :
       /\ c1.src = 1 /\ c2.src = 2
       /\ RefTarget(c1) # RefTarget(c2)
       /\ Path_name(RefTarget(c1)) # Path_name(RefTarget(c2))
       /\ ImageBytes(1, RefTarget(c1)) = ImageBytes(2, RefTarget(c2))

(***************************************************************************)
(* C4  Reference integrity.                                                *)
(***************************************************************************)

\* The references the rewriter changed: those the mapper found a target for.
Rewritten == { c \in consults : c.found # None }

\* The archive entry a rewritten reference points at: its path part, resolved
\* against the directory of the output file that holds it.
OutTarget(c) == _posix_norm(c.where \o _split_ref_suffix(c.out)[1])

\* C4: in the output of a successful combine every reference the rewriter
\* changed, in a content file or a stylesheet, resolves from the directory of
\* the output file that contains it to an entry of the output archive, links
\* to content files that were skipped included.
C4_ReferenceIntegrity ==
  Succeeded => \A c \in Rewritten : OutTarget(c) \in ArchiveNames

(***************************************************************************)
(* C5  Two well-formed sources, end to end.                                *)
(***************************************************************************)

\* The labels the four chapters of A.epub and B.epub carry, in spine order.
ChapterLabels == << <<"O","n","e">>, <<"T","w","o">>, <<"T","h","r","e","e">>, <<"F","o","u","r">> >>

IMG_1_PNG == <<"i","m","g","_","1",".","p","n","g">>

\* C5: combining A.epub and B.epub (a container descriptor, a package
\* document, two chapters and one image each, the image bytes the same, named
\* a.png and pic.png) with chapter-title labelling yields exactly the content
\* files 1.xhtml .. 4.xhtml, exactly the image Images/img_1.png, 4 entries
\* with the chapters' labels in nav.xhtml and in toc.ncx, and every image
\* reference equal to ../Images/img_1.png.
C5_EndToEnd ==
  (Succeeded /\ epub_paths = <<"A.epub", "B.epub">> /\ cfg.use_chapter_titles_in_toc) =>
    /\ ContentFiles = { NumberedFile(n) : n \in 1..4 }
    /\ ImageFiles = { OEBPS_IMAGES \o IMG_1_PNG }
    /\ Len(ArchiveData(OEBPS_TEXT \o NAV_XHTML).links) = 4
    /\ Len(ArchiveData(OEBPS_TOC_NCX).navPoints) = 4
    /\ \A i \in 1..4 :
         /\ ArchiveData(OEBPS_TEXT \o NAV_XHTML).links[i].label = ChapterLabels[i]
         /\ ArchiveData(OEBPS_TOC_NCX).navPoints[i].label = ChapterLabels[i]
    /\ \A c \in ImageRefs : c.out = IMAGES_ \o IMG_1_PNG

(***************************************************************************)
(* C6  No output file unless the combine succeeds.                         *)
(***************************************************************************)

\* C6: when the operation fails, at whatever step (a write failure while the
\* archive is packed included), no file, complete or partial, exists at the
\* destination path when control returns to the caller.
C6_NoPartialOutput ==
  Failed => dest.state = "absent"

(***************************************************************************)
(* C7  Input-archive errors are not fatal.                                 *)
(***************************************************************************)

\* C7: no error of an input archive aborts the operation: a source that is
\* not a valid archive, a source with an unreadable entry (content or asset)
\* and a source with malformed container or package XML never make the call
\* end with the archive error.
C7_InputErrorsNonFatal ==
  result # "BadZipFile"

(***************************************************************************)
(* C8  An unreadable content entry is skipped alone.                       *)
(***************************************************************************)

\* The content loop of the source of order record o has dealt with position i.
Passed(o, i) ==
  \/ o.src < epub_idx
  \/ o.src = epub_idx /\ pc = "content" /\ content_i > i

\* The entry at position i of order record o can be read.
ReadableAt(o, i) == CanRead(InputFiles[epub_paths[o.src]], o.ordered[i])

\* The label the content loop gives the entry at position i of order record o.
LabelAt(o, i) ==
  With(_extract_doc_label(InputFiles[epub_paths[o.src]].read[o.ordered[i]]), LAMBDA l :
    IF cfg.use_chapter_titles_in_toc /\ l # << >> THEN l ELSE SectionLabel(o.start + i))

\* The positions of the combined spine that came from position i of order record o.
SpinePositions(o, i) ==
  { j \in 1..Len(origin) : origin[j].src = o.src /\ origin[j].num = o.start + i }

\* Number num has a file, a manifest item or a spine entry.
Emitted(num) ==
  \/ NumberedFile(num) \in DOMAIN tree
  \/ NumberedFile(num) \in ArchiveNames
  \/ \E j \in 1..Len(manifest_items) :
       \/ manifest_items[j].id = CHAPTER_ \o str(num)
       \/ manifest_items[j].href = TEXT_ \o str(num) \o <<".","x","h","t","m","l">>
  \/ CHAPTER_ \o str(num) \in Range(spine_ids)
  \/ \E j \in 1..Len(origin) : origin[j].num = num

\* Number num has its file (in the working directory while it exists, in the
\* archive once written), its manifest item, one spine entry and its label.
EmittedWhole(o, i) ==
  /\ tmp_dir = "held" => NumberedFile(o.start + i) \in DOMAIN tree
  /\ dest.state = "complete" => NumberedFile(o.start + i) \in ArchiveNames
  /\ \E j \in 1..Len(manifest_items) :
       /\ manifest_items[j].id = CHAPTER_ \o str(o.start + i)
       /\ manifest_items[j].href = TEXT_ \o str(o.start + i) \o <<".","x","h","t","m","l">>
  /\ Cardinality(SpinePositions(o, i)) = 1
  /\ \A j \in SpinePositions(o, i) :
       /\ origin[j].name = o.ordered[i]
       /\ spine_ids[j] = CHAPTER_ \o str(o.start + i)
       /\ spine_labels[j] = LabelAt(o, i)

\* C8: a content entry that cannot be read is skipped alone: it gets no
\* output file, no manifest item, no spine entry and no label (the labels,
\* and the entries of both navigation documents, are one per spine entry),
\* and every other content entry of its source, before and after it in
\* order, is emitted.
C8_SkipOnlyUnreadable ==
  /\ Len(spine_labels) = Len(spine_ids) /\ Len(origin) = Len(spine_ids)
  /\ dest.state = "complete" =>
       /\ Len(ArchiveData(OEBPS_TEXT \o NAV_XHTML).links) = Len(origin)
       /\ Len(ArchiveData(OEBPS_TOC_NCX).navPoints) = Len(origin)
       /\ ArchiveData(OEBPS_CONTENT_OPF).spine = spine_ids
  /\ \A k \in 1..Len(orders) : \A i \in 1..Len(orders[k].ordered) :
       Passed(orders[k], i) =>
         IF ReadableAt(orders[k], i) THEN EmittedWhole(orders[k], i)
         ELSE ~Emitted(orders[k].start + i)

\* A successful run over a source with an unreadable content entry that has
\* readable content entries before it and after it.
C8_Witness ==
  /\ Succeeded
  /\ \E k \in 1..Len(orders) : \E i, b, a \in 1..Len(orders[k].ordered) :
       /\ b < i /\ i < a
       /\ ~ReadableAt(orders[k], i)
       /\ ReadableAt(orders[k], b) /\ ReadableAt(orders[k], a)
       /\ NumberedFile(orders[k].start + b) \in ArchiveNames
       /\ NumberedFile(orders[k].start + a) \in ArchiveNames

(***************************************************************************)
(* C9  Unresolved references are left as they are.                         *)
(***************************************************************************)

\* The lookups for which the mapper returned no match.
Unresolved == { c \in consults : c.found = None }

\* The constructs the rewriter looks references up in.
RefKinds == { "attr", "srcset", "style", "styleblock", "stylesheet" }

\* The file a lookup was made for has been produced: the content document
\* has its spine entry, the stylesheet its assigned name.
Produced(c) ==
  IF c.kind = "stylesheet"
  THEN \E t \in DOMAIN style_names_used :
         \E k \in 1..Len(t.refs) : t.refs[k].u = c.out
  ELSE \E j \in 1..Len(origin) : origin[j].src = c.src /\ origin[j].name = c.path

\* C9: whenever the mapper returns no match for a reference (the value of a
\* src/href/xlink:href/poster attribute, the URL of a srcset candidate, a
\* url() or @import of an inline style, of a <style> block or of a
\* stylesheet) the reference stands in the output as it was written, and the
\* file that holds it has been produced all the same.
C9_DoNoHarm ==
  \A c \in Unresolved : c.kind \in RefKinds /\ c.out = c.orig /\ Produced(c)

\* A successful run that met an unresolved reference in each of the five constructs.
C9_Witness ==
  /\ Succeeded
  /\ \A kind \in RefKinds : \E c \in Unresolved : c.kind = kind

(***************************************************************************)
(* C10  Determinism.                                                       *)
(***************************************************************************)

\* C10: a second run over the same ordered inputs with the same
\* configuration writes the same archive as the first: the same entries in
\* the same order, with the same names and the same content (the generated
\* identifier and the timestamp, which the model leaves out, apart).
C10_Determinism ==
  (run = 2 /\ Succeeded) => dest = first

(***************************************************************************)
(* C11  The mimetype entry.                                                *)
(***************************************************************************)

\* C11: in every archive written the first entry is named mimetype, is
\* stored without compression and holds exactly application/epub+zip, and
\* no other entry is named mimetype.
C11_MimetypeFirst ==
  dest.state = "complete" =>
    /\ Len(dest.entries) >= 1
    /\ dest.entries[1] = [name |-> MimetypePath, compress_type |-> "ZIP_STORED",
                          data |-> [text |-> "application/epub+zip"]]
    /\ \A k \in 2..Len(dest.entries) :
         dest.entries[k].name # MimetypePath /\ dest.entries[k].compress_type = "ZIP_DEFLATED"

\* An archive written from a working directory that holds content, an image
\* and a stylesheet next to the package files.
C11_Witness ==
  /\ Succeeded
  /\ Len(dest.entries) >= 10
  /\ \E k \in 2..Len(dest.entries) : startswith(dest.entries[k].name, OEBPS_STYLES)

(***************************************************************************)
(* C12  The working directory is released.                                 *)
(***************************************************************************)

\* C12: when control is back with the caller, by return or by exception at
\* whatever step, the working directory the call acquired is released and
\* nothing of it is left; it was never acquired only when mkdtemp itself
\* failed, before any progress call.
C12_WorkdirReleased ==
  pc = "returned" =>
    /\ tmp_dir # "held"
    /\ tree = EmptyDict
    /\ tmp_dir = "none" => (result = "OSError" /\ progress = << >>)

\* A call that failed while packing, after the working directory was filled.
C12_Witness ==
  /\ pc = "returned" /\ result = "OSError"
  /\ dest.state = "partial"
  /\ tmp_dir = "released"
  /\ spine_ids # << >>

(***************************************************************************)
(* The helpers on their own.  No call of combine_epubs is in progress; a   *)
(* helper is applied to an argument drawn from a bounded set, fn_in, and   *)
(* its results are collected in fn_out.                                    *)
(***************************************************************************)

\* The variables of combine_epubs.
machine == << epub_paths, cfg, pc, tmp_dir, tree, epub_idx, archive, html_counter,
              image_names_used, font_names_used, style_names_used,
              manifest_items, spine_ids, spine_labels, ordered_content, mapper,
              content_new_name, start_num, content_i, dest, progress, result,
              origin, orders, consults, run, first >>

\* No call has been made.
Idle ==
  /\ epub_paths = << >>
  /\ cfg = [use_chapter_titles_in_toc |-> TRUE, exclude_nav_docs |-> TRUE,
            exclude_toc_docs |-> TRUE]
  /\ Fresh
  /\ run = 1
  /\ first = NoFile

\* The strings of a sequence of strings, put end to end.
RECURSIVE Concat(_)
Concat(ps) == IF ps = << >> THEN << >> ELSE ps[1] \o Concat(Tail(ps))

\* The pieces the sample paths are made of, and how many a path has at most.
PathPieces ==
  { <<"a">>, <<"B">>, <<"/">>, <<"\\">>, <<".">>, <<".",".">>, <<"%","4","1">>,
    <<"%","2","5">>, <<"%","2","f">>, <<"4","1">>, <<" ">> }

MaxPieces == 3

SamplePaths == { Concat(ps) : ps \in SeqsUpTo(PathPieces, MaxPieces) }

\* How many times in a row the normalizer is applied.
MaxApplications == 2

InitNormalize == Idle /\ fn_in \in SamplePaths /\ fn_out = << >>

\* _norm_key applied to the path, then to its own result.
Normalize ==
  /\ Len(fn_out) < MaxApplications
  /\ fn_out' = Append(fn_out, _norm_key(IF fn_out = << >> THEN fn_in
                                        ELSE fn_out[Len(fn_out)]))
  /\ UNCHANGED << machine, fn_in >>

SpecNormalize == InitNormalize /\ [][Normalize]_vars

(***************************************************************************)
(* C13  Path normalization is idempotent.                                  *)
(***************************************************************************)

\* C13: for every path (empty, backslash-separated, mixed case,
\* percent-encoded, encoded percent signs included, with ./ and ../
\* segments) normalizing the normalized path gives the normalized path.
C13_NormalizeIdempotent ==
  Len(fn_out) >= 2 => fn_out[2] = fn_out[1]

(***************************************************************************)
(* C14  Progress updates.                                                  *)
(***************************************************************************)

\* The positions of the call at which a source is being processed.
InSource == pc \in {"images", "fonts", "styles", "names", "content"}

RECURSIVE MapperOf(_, _)
MapperOf(adds, m) ==
  IF adds = << >> THEN AssetMapper_finalize(m)
  ELSE MapperOf(Tail(adds), AssetMapper_add(m, adds[1][1], adds[1][2]))

IMG_1 == <<".",".","/","I","m","a","g","e","s","/","i","m","g","_","1",".","p","n","g">>
IMG_2 == <<".",".","/","I","m","a","g","e","s","/","i","m","g","_","2",".","p","n","g">>

\* The sample sources, each as the calls of add made for it: no entry; one
\* image; an image at the root and one of the same name below OEBPS; two
\* entries of one name with one target; two entries of one name with two.
SampleAdds ==
  { << >>,
    << << <<"O","E","B","P","S","/","a",".","p","n","g">>, IMG_1 >> >>,
    << << <<"a",".","p","n","g">>, IMG_1 >>, << <<"O","E","B","P","S","/","a",".","p","n","g">>, IMG_2 >> >>,
    << << <<"x","/","a",".","p","n","g">>, IMG_1 >>, << <<"y","/","a",".","p","n","g">>, IMG_1 >> >>,
    << << <<"x","/","a",".","p","n","g">>, IMG_1 >>, << <<"y","/","a",".","p","n","g">>, IMG_2 >> >> }

\* How a sample reference begins, and how it goes on.
RefHeads ==
  { <<"h","t","t","p",":","/","/">>,
    <<"H","T","T","P",":","/","/">>,
    <<"h","t","t","p","s",":","/","/">>,
    <<"H","t","t","p","s",":","/","/">>,
    <<"m","a","i","l","t","o",":">>,
    <<"M","A","I","L","T","O",":">>,
    <<"t","e","l",":">>,
    <<"T","e","l",":">>,
    <<"d","a","t","a",":">>,
    <<"D","A","T","A",":">>,
    <<"#">>,
    <<>> }

RefTails ==
  { <<"e",".","o","r","g","/","a",".","p","n","g">>,
    <<"a",".","p","n","g">>,
    <<"a",".","p","n","g","#","f">>,
    <<" ","a",".","p","n","g">> }

SampleRefs == { h \o t : h \in RefHeads, t \in RefTails }

\* The documents a sample reference stands in.
SampleDocs == { <<"O","E","B","P","S","/","c","h","1",".","x","h","t","m","l">>, <<"c","h",".","x","h","t","m","l">>, <<"x","/","s",".","c","s","s">> }

SampleUses ==
  [kind : RefKinds, ref : SampleRefs, adds : SampleAdds, doc : SampleDocs]

\* The text that holds the one reference of a sample use: a content document
\* with one construct, or the references of a stylesheet.
UseText(u) ==
  IF u.kind = "stylesheet" THEN << [kind |-> "url", u |-> u.ref] >>
  ELSE [title |-> << >>, heading |-> << >>,
        items |-> << [kind |-> u.kind,
                      v |-> IF u.kind = "srcset" THEN u.ref \o <<" ","2","x">> ELSE u.ref,
                      css |-> IF u.kind \in {"style", "styleblock"}
                              THEN << [kind |-> "url", u |-> u.ref] >> ELSE << >>] >>]

\* The reference as it stands in a rewritten text.
RefIn(kind, text) ==
  IF kind = "stylesheet" THEN text[1].u
  ELSE IF kind = "attr" THEN text.items[1].v
  ELSE IF kind = "srcset" THEN Upto(text.items[1].v, Len(text.items[1].v) - 3)
  ELSE text.items[1].css[1].u

InitRewrite == Idle /\ fn_in \in SampleUses /\ fn_out = << >>

\* _rewrite_asset_refs (for a stylesheet _rewrite_css_refs) on the text.
Rewrite ==
  /\ fn_out = << >>
  /\ fn_out' =
       << IF fn_in.kind = "stylesheet"
          THEN _rewrite_css_refs(UseText(fn_in), MapperOf(fn_in.adds, AssetMapper_init),
                                 fn_in.doc)
          ELSE _rewrite_asset_refs(UseText(fn_in), MapperOf(fn_in.adds, AssetMapper_init),
                                   fn_in.doc) >>
  /\ UNCHANGED << machine, fn_in >>

SpecRewrite == InitRewrite /\ [][Rewrite]_vars

(***************************************************************************)
(* C15  External and fragment-only references are left alone.              *)
(***************************************************************************)

ExternalSchemes ==
  { <<"h","t","t","p",":">>, <<"h","t","t","p","s",":">>, <<"m","a","i","l","t","o",":">>,
    <<"t","e","l",":">>, <<"d","a","t","a",":">> }

\* The reference begins with an external scheme, in whatever letter case,
\* or is fragment-only.
IsExternal(ref) ==
  startswithAny(lower(ref), ExternalSchemes) \/ startswith(ref, <<"#">>)

\* C15: a reference that begins with an external scheme (http:, https:,
\* mailto:, tel:, data:), whatever the letter case of the scheme, or that is
\* fragment-only, comes out of the rewriter as it went in, in every
\* construct and whatever the mapper holds.
C15_ExternalUntouched ==
  (fn_out # << >> /\ IsExternal(fn_in.ref)) =>
    RefIn(fn_in.kind, fn_out[1]) = fn_in.ref

(***************************************************************************)
(* C16  The navigation documents follow the spine.                         *)
(***************************************************************************)

\* The two navigation documents and the package document of the written archive.
NavDoc == ArchiveData(OEBPS_TEXT \o NAV_XHTML)
NcxDoc == ArchiveData(OEBPS_TOC_NCX)
OpfDoc == ArchiveData(OEBPS_CONTENT_OPF)

\* The href (relative to OEBPS/) of the manifest item of the i-th spine entry.
SpineHref(i) ==
  LET item == CHOOSE it \in Range(OpfDoc.manifest) : it.id = OpfDoc.spine[i]
  IN item.href

\* C16: in a written archive the i-th navPoint of toc.ncx and the i-th link
\* of nav.xhtml both point at the content file of the i-th spine entry and
\* carry its label, one of each per spine entry, also when content entries
\* of a source were skipped.
C16_NavigationFollowsSpine ==
  Succeeded =>
    /\ Len(NcxDoc.navPoints) = Len(OpfDoc.spine)
    /\ Len(NavDoc.links) = Len(OpfDoc.spine)
    /\ \A i \in 1..Len(OpfDoc.spine) :
         /\ NcxDoc.navPoints[i].src = SpineHref(i)
         /\ TEXT_ \o NavDoc.links[i].href = SpineHref(i)
         /\ NcxDoc.navPoints[i].label = spine_labels[i]
         /\ NavDoc.links[i].label = spine_labels[i]

(***************************************************************************)
(* The qualification of an entry on its own: an archive with one entry,    *)
(* and the two exclusion options.                                          *)
(***************************************************************************)

NameDirs == { <<>>, <<"x","/">> }

NameStems ==
  { <<"n","a","v">>,
    <<"t","o","c">>,
    <<"c","o","n","t","e","n","t","s">>,
    <<"c","o","n","t","e","n","t">>,
    <<"s","u","b","n","a","v">>,
    <<"m","y","t","o","c">>,
    <<"c","h","1">>,
    <<"N","A","V">>,
    <<"T","o","c">> }

NameExts ==
  { <<".","x","h","t","m","l">>,
    <<".","h","t","m","l">>,
    <<".","h","t","m">>,
    <<".","x","m","l">>,
    <<".","n","c","x">>,
    <<".","c","s","s">>,
    <<".","X","H","T","M","L">> }

SampleNames == { d \o s \o e : d \in NameDirs, s \in NameStems, e \in NameExts }

SampleEntries ==
  [name : SampleNames, exclude_nav_docs : BOOLEAN, exclude_toc_docs : BOOLEAN]

InitQualify == Idle /\ fn_in \in SampleEntries /\ fn_out = << >>

\* all_content over the archive whose one entry is the name: is it kept?
Qualify ==
  /\ fn_out = << >>
  /\ fn_out' = << all_content([NoArchive EXCEPT !.names = << fn_in.name >>],
                              fn_in.exclude_nav_docs, fn_in.exclude_toc_docs) # << >> >>
  /\ UNCHANGED << machine, fn_in >>

SpecQualify == InitQualify /\ [][Qualify]_vars

(***************************************************************************)
(* C17  Which entries are content files.                                   *)
(***************************************************************************)

\* The stem of the entry's name, letter case apart.
LowStem(name) == Path_stem(lower(name))

\* The entry is excluded as stated: the option is enabled and the stem is
\* nav (navigation documents), or toc, contents or content, or the name has
\* the suffix toc.ncx (legacy tables of contents).
StatedExcluded(u) ==
  \/ u.exclude_nav_docs /\ LowStem(u.name) = <<"n","a","v">>
  \/ u.exclude_toc_docs /\
       \/ LowStem(u.name) \in { <<"t","o","c">>, <<"c","o","n","t","e","n","t","s">>,
                                <<"c","o","n","t","e","n","t">> }
       \/ endswith(lower(u.name), <<"t","o","c",".","n","c","x">>)

\* C17: an entry is a content file iff its extension is in the XHTML family
\* and it is not excluded; it is excluded exactly when the corresponding
\* option is enabled and its stem is nav, toc, contents or content (or it
\* ends with toc.ncx); a name that merely ends with one of these words, like
\* subnav.xhtml, is not excluded.
C17_ContentQualification ==
  fn_out # << >> =>
    (fn_out[1] <=> (lower(Path_suffix(fn_in.name)) \in XHTML_EXTENSIONS
                    /\ ~StatedExcluded(fn_in)))

(***************************************************************************)
(* The mapper's lookup on its own.                                         *)
(***************************************************************************)

\* References to entries of a source, as documents write them.
LookupRefs ==
  { <<"a",".","p","n","g">>,
    <<"z","/","a",".","p","n","g">>,
    <<".",".","/","a",".","p","n","g">>,
    <<"a",".","p","n","g","#","f">>,
    <<"A",".","P","N","G">>,
    <<"x","/","a",".","p","n","g">>,
    <<"b",".","p","n","g">>,
    <<"%","6","1",".","p","n","g">>,
    <<"a",".","p","n","g","?","q","=","1","#","f">>,
    <<"/","a",".","p","n","g">>,
    <<"O","E","B","P","S","/","a",".","p","n","g">>,
    <<".","/","a",".","p","n","g">>,
    <<"y","\\","a",".","p","n","g">> }

SampleLookups == [ref : LookupRefs, adds : SampleAdds, doc : SampleDocs]

InitLookup == Idle /\ fn_in \in SampleLookups /\ fn_out = << >>

\* mapper.lookup(ref, doc) on the finalized mapper of the source.
Lookup ==
  /\ fn_out = << >>
  /\ fn_out' = << AssetMapper_lookup(MapperOf(fn_in.adds, AssetMapper_init),
                                     fn_in.ref, fn_in.doc) >>
  /\ UNCHANGED << machine, fn_in >>

SpecLookup == InitLookup /\ [][Lookup]_vars

\* The path part and the suffix of the reference of a sample lookup.
RefBase(u) == replaceBackslash(strip(_split_ref_suffix(u.ref)[1]))
RefTail(u) == _split_ref_suffix(u.ref)[2]

\* The canonical form of the reference as written, and resolved against the
\* directory of the document (a rooted reference is not resolved).
AsWritten(u) == _norm_key(RefBase(u))
Resolved(u) ==
  LET dir == Path_parent(u.doc)
  IN IF dir = <<".">> \/ startswith(RefBase(u), <<"/">>) THEN AsWritten(u)
     ELSE _norm_key(dir \o <<"/">> \o RefBase(u))

\* The hrefs the source's entries with canonical path key were mapped to
\* (the last of them is the one the exact table holds).
RECURSIVE LastHref(_, _)
LastHref(adds, key) ==
  IF adds = << >> THEN None
  ELSE IF _norm_key(adds[Len(adds)][1]) = key THEN Some(adds[Len(adds)][2])
  ELSE LastHref(Upto(adds, Len(adds) - 1), key)

\* The distinct hrefs of the source's entries whose basename is that of the reference.
BasenameHrefs(u) ==
  { a[2] : a \in { b \in Range(u.adds) :
                     _norm_key(Path_name(replaceBackslash(b[1])))
                       = _norm_key(Path_name(RefBase(u))) } }

\* Both exact lookups of the reference fail.
ExactFails(u) == LastHref(u.adds, AsWritten(u)) = None /\ LastHref(u.adds, Resolved(u)) = None

(***************************************************************************)
(* C18  The basename fallback.                                             *)
(***************************************************************************)

\* C18: when both exact lookups of a reference fail, lookup answers from the
\* basename exactly when the entries of the source with that basename were
\* mapped to one single href, whether they are one entry or several
\* deduplicated ones; with two or more distinct hrefs, or none, it returns
\* no match.
C18_BasenameFallback ==
  (fn_out # << >> /\ ExactFails(fn_in)) =>
    IF Cardinality(BasenameHrefs(fn_in)) = 1
    THEN \E h \in BasenameHrefs(fn_in) : fn_out[1] = Some(h \o RefTail(fn_in))
    ELSE fn_out[1] = None

\* A reference matched by basename to the one href of two entries of the
\* same name.
C18_Witness ==
  /\ fn_out # << >>
  /\ ExactFails(fn_in)
  /\ Cardinality({ a[1] : a \in Range(fn_in.adds) }) = 2
  /\ Cardinality(BasenameHrefs(fn_in)) = 1
  /\ fn_out[1] # None

(***************************************************************************)
(* C19  The order of the lookup tiers.                                     *)
(***************************************************************************)

\* The references lookup leaves to the caller: empty ones, fragments and the
\* external schemes it knows.
LookupSkips(u) ==
  \/ RefBase(u) = << >>
  \/ startswithAny(RefBase(u), LookupSkipPrefixes)

\* The answer of the first tier that has one: the exact table for the
\* reference as written, the exact table for the reference resolved against
\* the directory of the document, then the unambiguous basename.
TierAnswer(u) ==
  IF LastHref(u.adds, AsWritten(u)) # None THEN LastHref(u.adds, AsWritten(u))
  ELSE IF LastHref(u.adds, Resolved(u)) # None THEN LastHref(u.adds, Resolved(u))
  ELSE IF Cardinality(BasenameHrefs(u)) = 1
       THEN Some(CHOOSE h \in BasenameHrefs(u) : TRUE)
  ELSE None

\* C19: lookup answers from the first of the three tiers that has an answer,
\* in the order as written, resolved, basename, and the value it returns is
\* the mapped href followed by the query and fragment of the reference,
\* unchanged; when no tier has an answer it returns no match.
C19_LookupTiers ==
  (fn_out # << >> /\ ~LookupSkips(fn_in)) =>
    IF TierAnswer(fn_in) = None THEN fn_out[1] = None
    ELSE fn_out[1] = Some(TierAnswer(fn_in)[1] \o RefTail(fn_in))

\* A reference whose form as written and whose resolved form are both in the
\* exact table, with different hrefs.
C19_Witness ==
  /\ fn_out # << >>
  /\ LastHref(fn_in.adds, AsWritten(fn_in)) # None
  /\ LastHref(fn_in.adds, Resolved(fn_in)) # None
  /\ LastHref(fn_in.adds, AsWritten(fn_in)) # LastHref(fn_in.adds, Resolved(fn_in))
  /\ fn_out[1] = Some(LastHref(fn_in.adds, AsWritten(fn_in))[1] \o RefTail(fn_in))

(***************************************************************************)
(* C20  The assignment of asset names.                                     *)
(***************************************************************************)

STYLE_ == <<"s","t","y","l","e","_">>
CSS_ == <<"c","s","s","_">>
STYLES == <<"S","t","y","l","e","s">>

\* The contents of a class (image or font) held by the valid sources 1..k.
ContentsThrough(k, exts) ==
  UNION { { InputFiles[epub_paths[j]].read[n].bytes :
              n \in { e \in Range(InputFiles[epub_paths[j]].names) :
                        lower(Path_suffix(e)) \in exts } } :
          j \in { i \in 1..k : i <= Len(epub_paths) /\ ValidSource(i) } }

\* The call is still running or has returned normally.
OnCourse == pc \notin {"cleanup", "returned"} \/ result = "ok"

\* The number of sources whose image loop (font loop) has been run.
ImagesThrough == IF pc \in {"fonts", "styles", "names", "content"} THEN epub_idx ELSE epub_idx - 1
FontsThrough == IF pc \in {"styles", "names", "content"} THEN epub_idx ELSE epub_idx - 1

\* The contents recorded in used are named prefix1.., prefixK.. for K the
\* number of contents, each number once; each content is in its own file of
\* directory dir of the working tree (while the tree exists), the directory
\* holds no other file, and each content has one manifest item, idprefixN.
\* A stylesheet is stored as its text, an image or a font as its bytes.
NumberedOnce(used, prefix, idprefix, dir, text) ==
  LET K == Cardinality(DOMAIN used)
      path(h) == OEBPS \o <<"/">> \o dir \o <<"/">> \o used[h]
      items(h) == { i \in 1..Len(manifest_items) :
                      manifest_items[i].href = dir \o <<"/">> \o used[h] }
  IN /\ \A h \in DOMAIN used :
          \E n \in 1..K :
            /\ startswith(used[h], prefix \o str(n) \o <<".">>)
            /\ Cardinality(items(h)) = 1
            /\ \A i \in items(h) : manifest_items[i].id = idprefix \o str(n)
     /\ \A n \in 1..K :
          Cardinality({ h \in DOMAIN used :
                          startswith(used[h], prefix \o str(n) \o <<".">>) }) = 1
     /\ Cardinality({ i \in 1..Len(manifest_items) :
                        startswith(manifest_items[i].href, dir \o <<"/">>) }) = K
     /\ tmp_dir = "held" =>
          /\ \A h \in DOMAIN used : path(h) \in DOMAIN tree /\ tree[path(h)] = (IF text THEN h ELSE [bytes |-> h])
          /\ { p \in DOMAIN tree : startswith(p, OEBPS \o <<"/">> \o dir \o <<"/">>) }
               = { path(h) : h \in DOMAIN used }

\* C20: at every point of a run, the names of each class (image, font,
\* stylesheet) are numbered 1..K with no gap and no number used twice, K
\* being the number of distinct contents of the class met so far; each
\* distinct content is one file of the working tree and has exactly one
\* manifest item; the numbering of a class does not depend on the others.
C20_AssetNumbering ==
  /\ NumberedOnce(image_names_used, ImageClass.prefix, ImageClass.prefix, ImageClass.dir, FALSE)
  /\ NumberedOnce(font_names_used, FontClass.prefix, FontClass.prefix, FontClass.dir, FALSE)
  /\ NumberedOnce(style_names_used, STYLE_, CSS_, STYLES, TRUE)
  /\ OnCourse =>
       /\ DOMAIN image_names_used = ContentsThrough(ImagesThrough, IMAGE_EXTENSIONS)
       /\ DOMAIN font_names_used = ContentsThrough(FontsThrough, FONT_EXTENSIONS)

\* Two sources processed, holding images, a font and a stylesheet, an image
\* content of the first met again in the second.
C20_Witness ==
  /\ pc = "package"
  /\ image_names_used # EmptyDict
  /\ font_names_used # EmptyDict
  /\ style_names_used # EmptyDict
  /\ \E j, k \in 1..Len(epub_paths) :
       /\ j < k /\ ValidSource(j) /\ ValidSource(k)
       /\ \E n \in ImageEntries(k) : ImageBytes(k, n) \in ContentsThrough(j, IMAGE_EXTENSIONS)

(***************************************************************************)
(* The stylesheet loop on its own: two stylesheets, of one source or of    *)
(* two, met one after the other.                                           *)
(***************************************************************************)

\* The references a sample stylesheet holds in its one url(...).
StyleRefs == { <<"a",".","p","n","g">>, <<"x","/","a",".","p","n","g">>, <<"y","/","a",".","p","n","g">>, <<"h","t","t","p",":","/","/","e",".","o","r","g","/","a",".","p","n","g">> }

\* The archive names of the sample stylesheets.
StyleNames == { <<"x","/","s",".","c","s","s">>, <<"y","/","t",".","c","s","s">> }

\* A sample stylesheet: the bytes around its reference, the reference, its
\* archive name, and the calls of add made for its source before the loop.
SampleStyles == [body : {1, 2}, ref : StyleRefs, name : StyleNames, adds : SampleAdds]

SampleStylePairs == [one : SampleStyles, two : SampleStyles]

InitStyles == Idle /\ fn_in \in SampleStylePairs /\ fn_out = << >>

\* The entry of the archive a sample stylesheet is read from.
StyleRaw(s) == [ok |-> TRUE, body |-> s.body, refs |-> << [kind |-> "url", u |-> s.ref] >>]
StyleArchive(s) ==
  [NoArchive EXCEPT !.is_zipfile = TRUE, !.opens = TRUE, !.names = << s.name >>,
                    !.read = (s.name :> StyleRaw(s))]

\* The body of the stylesheet loop on the first stylesheet, then on the
\* second with the dictionary, the tree and the manifest the first left;
\* the mapper is that of the source of each (the same one when both are of
\* one source).  The result: the href each was mapped to, and the tree.
Styles ==
  /\ fn_out = << >>
  /\ \E st1 \in { StyleStep([used |-> EmptyDict, manifest_items |-> << >>,
                             tree |-> EmptyDict, consults |-> {},
                             mapper |-> MapperOf(fn_in.one.adds, AssetMapper_init)],
                            StyleArchive(fn_in.one), fn_in.one.name) } :
     \E st2 \in { StyleStep([st1 EXCEPT !.mapper =
                               IF fn_in.two.adds = fn_in.one.adds THEN st1.mapper
                               ELSE MapperOf(fn_in.two.adds, AssetMapper_init)],
                            StyleArchive(fn_in.two), fn_in.two.name) } :
       fn_out' = << [one |-> st1.mapper._map[_norm_key(fn_in.one.name)],
                     two |-> st2.mapper._map[_norm_key(fn_in.two.name)],
                     tree |-> st2.tree] >>
  /\ UNCHANGED << machine, fn_in >>

SpecStyles == InitStyles /\ [][Styles]_vars

(***************************************************************************)
(* C21  Stylesheet identity.                                               *)
(***************************************************************************)

\* What the reference of a sample stylesheet resolves to (none when the
\* rewriter leaves it as it is), and the text of the stylesheet after rewriting.
StyleTarget(s) ==
  IF LookupSkips([ref |-> s.ref, adds |-> s.adds, doc |-> s.name]) THEN None
  ELSE TierAnswer([ref |-> s.ref, adds |-> s.adds, doc |-> s.name])
StyleRewritten(s) ==
  [body |-> s.body,
   refs |-> _rewrite_css_refs(StyleRaw(s).refs, MapperOf(s.adds, AssetMapper_init), s.name)]

\* The file of the working tree an href of the Styles directory names.
StyleFile(href) == OEBPS \o <<"/">> \o Tail(Tail(Tail(href)))

\* C21: two stylesheets are given one output file exactly when their texts
\* after rewriting are equal, and the file holds that text; so two
\* stylesheets of equal source text whose references resolve to different
\* assets get two files, and two of different source text whose rewritten
\* texts are equal get one.
C21_StylesheetIdentity ==
  fn_out # << >> =>
    /\ (fn_out[1].one = fn_out[1].two) <=> (StyleRewritten(fn_in.one) = StyleRewritten(fn_in.two))
    /\ fn_out[1].tree[StyleFile(fn_out[1].one)] = StyleRewritten(fn_in.one)
    /\ fn_out[1].tree[StyleFile(fn_out[1].two)] = StyleRewritten(fn_in.two)
    /\ ( /\ fn_in.one.body = fn_in.two.body /\ fn_in.one.ref = fn_in.two.ref
         /\ StyleTarget(fn_in.one) # StyleTarget(fn_in.two)
         /\ StyleTarget(fn_in.one) # None /\ StyleTarget(fn_in.two) # None )
         => fn_out[1].one # fn_out[1].two
    /\ ( /\ fn_in.one.body = fn_in.two.body /\ fn_in.one.ref # fn_in.two.ref
         /\ StyleTarget(fn_in.one) = StyleTarget(fn_in.two)
         /\ StyleTarget(fn_in.one) # None )
         => fn_out[1].one = fn_out[1].two

\* Two stylesheets of one source text whose reference resolves to two
\* different images: two files.
C21_Witness ==
  /\ fn_out # << >>
  /\ fn_in.one.body = fn_in.two.body /\ fn_in.one.ref = fn_in.two.ref
  /\ StyleTarget(fn_in.one) # None /\ StyleTarget(fn_in.two) # None
  /\ StyleTarget(fn_in.one) # StyleTarget(fn_in.two)
  /\ fn_out[1].one # fn_out[1].two

(***************************************************************************)
(* The spine resolver and the ordering of content on their own.            *)
(***************************************************************************)

CONTAINER_PATH == <<"M","E","T","A","-","I","N","F","/","c","o","n","t","a","i","n","e","r",".","x","m","l">>
SAMPLE_OPF == <<"x","/","p",".","o","p","f">>
MISSING_OPF == <<"g","o","n","e",".","o","p","f">>

\* The content entries of the sample archives, in archive order, which is
\* not their lexical order.
SampleContent == << <<"x","/","b",".","h","t","m","l">>, <<"x","/","a",".","h","t","m","l">>, <<"x","/","n","a","v",".","x","h","t","m","l">>, <<"Z",".","x","h","t","m","l">> >>

\* What a sample archive holds as META-INF/container.xml and as x/p.opf.
ContainerKinds == {"absent", "unreadable", "malformed", "no rootfile", "names x/p.opf",
                   "names gone.opf"}
OpfKinds == {"absent", "unreadable", "malformed", "no spine", "good"}

SampleArchives == [container : ContainerKinds, opf : OpfKinds, exclude_nav_docs : BOOLEAN]

\* The entries of a sample archive: the container and the package document
\* when present, then the content.
SampleContainer(u) ==
  [ok |-> u.container # "unreadable",
   wellformed |-> u.container # "malformed",
   rootfile |-> IF u.container = "names x/p.opf" THEN Some(SAMPLE_OPF)
                ELSE IF u.container = "names gone.opf" THEN Some(MISSING_OPF)
                ELSE None,
   title |-> << >>, heading |-> << >>, items |-> << >>]
SampleOpf(u) ==
  [ok |-> u.opf # "unreadable",
   wellformed |-> u.opf # "malformed",
   manifest |-> << [id |-> "b", href |-> <<"b",".","h","t","m","l">>], [id |-> "a", href |-> <<"a",".","h","t","m","l">>] >>,
   spine |-> IF u.opf = "good" THEN << "b", "a" >> ELSE << >>]
SampleArchive(u) ==
  [is_zipfile |-> TRUE, opens |-> TRUE,
   names |-> (IF u.container = "absent" THEN << >> ELSE << CONTAINER_PATH >>)
             \o (IF u.opf = "absent" THEN << >> ELSE << SAMPLE_OPF >>)
             \o SampleContent,
   read |-> [n \in {CONTAINER_PATH} \ {c \in {CONTAINER_PATH} : u.container = "absent"}
               |-> SampleContainer(u)]
            @@ [n \in {SAMPLE_OPF} \ {c \in {SAMPLE_OPF} : u.opf = "absent"} |-> SampleOpf(u)]
            @@ [n \in Range(SampleContent) |->
                  [ok |-> TRUE, title |-> << >>, heading |-> << >>, items |-> << >>]]]

InitSpine == Idle /\ fn_in \in SampleArchives /\ fn_out = << >>

\* _get_spine_order on the archive, then the matching loop and the sorted
\* leftovers over its qualifying content entries.
ResolveSpine ==
  /\ fn_out = << >>
  /\ \E spine_order \in { _get_spine_order(SampleArchive(fn_in)) } :
     \E oc \in OrderedContentChoices(
                 spine_order,
                 Range(all_content(SampleArchive(fn_in), fn_in.exclude_nav_docs, FALSE)),
                 << >>) :
       fn_out' = << [spine_order |-> spine_order, ordered_content |-> oc] >>
  /\ UNCHANGED << machine, fn_in >>

SpecSpine == InitSpine /\ [][ResolveSpine]_vars

(***************************************************************************)
(* C22  A source without a usable package document.                        *)
(***************************************************************************)

\* The package document of a sample archive cannot be found or cannot be
\* parsed: the container names an entry that does not exist, or x/p.opf,
\* which the container names or the search for *.opf finds, is absent,
\* unreadable or malformed.
PackageUnusable(u) ==
  u.container = "names gone.opf" \/ u.opf \in {"absent", "unreadable", "malformed"}

\* The entries of a sample archive that qualify as content: the content
\* entries and, .xml being a content extension, the container.
SampleQualifying(u) ==
  { n \in Range(SampleContent) : ~(u.exclude_nav_docs /\ Path_name(n) = NAV_XHTML) }
    \cup { c \in {CONTAINER_PATH} : u.container # "absent" }

\* C22: when the package document of a source cannot be found or parsed,
\* the spine resolver returns the empty order (it does not raise), and the
\* content entries of the source are ordered by their archive names,
\* lexically, each qualifying entry once.
C22_NoPackageLexical ==
  (fn_out # << >> /\ PackageUnusable(fn_in)) =>
    /\ fn_out[1].spine_order = << >>
    /\ Range(fn_out[1].ordered_content) = SampleQualifying(fn_in)
    /\ \A i, j \in 1..Len(fn_out[1].ordered_content) :
         i < j => strLess(fn_out[1].ordered_content[i], fn_out[1].ordered_content[j])

\* A malformed package document, found by the search for *.opf, and the
\* container and the four content entries in lexical order, which is not
\* the archive's.
C22_Witness ==
  /\ fn_out # << >>
  /\ fn_in.container = "malformed" /\ fn_in.opf = "malformed"
  /\ Len(fn_out[1].ordered_content) = 5
  /\ fn_out[1].ordered_content[2] = SampleContent[4]

(***************************************************************************)
(* C23  The manifest and the spine of the generated package document.      *)
(***************************************************************************)

NCX == <<"n","c","x">>
TOC_NCX == <<"t","o","c",".","n","c","x">>

\* The manifest items of the written package document whose id begins with prefix.
ItemsWith(prefix) == SelectSeq(OpfDoc.manifest, LAMBDA it : startswith(it.id, prefix))

\* The number an id carries after its prefix, 0 when it carries none.
IdNumber(id, prefix) ==
  LET ns == { n \in 1..(Len(OpfDoc.manifest) + QualifyingUpTo(Len(epub_paths))) :
                id = prefix \o str(n) }
  IN IF ns = {} THEN 0 ELSE CHOOSE n \in ns : TRUE

\* The items of the prefix carry numbers that grow along the manifest.
Ascending(prefix) ==
  /\ \A i \in 1..Len(ItemsWith(prefix)) : IdNumber(ItemsWith(prefix)[i].id, prefix) >= 1
  /\ \A i, j \in 1..Len(ItemsWith(prefix)) :
       i < j => IdNumber(ItemsWith(prefix)[i].id, prefix)
                  < IdNumber(ItemsWith(prefix)[j].id, prefix)

\* The items of the prefix carry the numbers 1, 2, .. along the manifest.
Consecutive(prefix) ==
  \A i \in 1..Len(ItemsWith(prefix)) : ItemsWith(prefix)[i].id = prefix \o str(i)

\* The files of the written archive that are content or assets: what lies
\* below OEBPS apart from the package document itself.
ManifestedFiles == { n \in ArchiveNames : startswith(n, OEBPS \o <<"/">>) } \ {OEBPS_CONTENT_OPF}

Stage(p) ==
  IF p = "images" THEN 1 ELSE IF p = "fonts" THEN 2 ELSE IF p = "styles" THEN 3
  ELSE IF p = "names" THEN 4 ELSE 5

\* The number (at most max) an assigned asset name carries after its prefix.
AssetNumber(name, prefix, max) ==
  LET ns == { n \in 1..max : startswith(name, prefix \o str(n) \o <<".">>) }
  IN IF ns = {} THEN 0 ELSE CHOOSE n \in ns : TRUE

\* A step leaves the names assigned so far as they are, and the names it
\* assigns carry numbers above all of them.
Grows(used, used2, prefix) ==
  /\ \A h \in DOMAIN used : h \in DOMAIN used2 /\ used2[h] = used[h]
  /\ \A h \in DOMAIN used2 \ DOMAIN used :
       \A g \in DOMAIN used : AssetNumber(used2[h], prefix, Cardinality(DOMAIN used2))
           > AssetNumber(used[g], prefix, Cardinality(DOMAIN used2))

\* What every step of a call keeps to.
SequentialStep ==
  /\ epub_idx' >= epub_idx
  /\ epub_idx' # epub_idx => pc \in {"loop", "content"} /\ pc' = "loop"
  /\ (pc = "loop" /\ pc' \in {"images", "fonts", "styles", "names", "content"}) => pc' = "images"
  /\ (InSource /\ pc' \in {"images", "fonts", "styles", "names", "content"}) =>
       /\ epub_idx' = epub_idx
       /\ Stage(pc') \in {Stage(pc), Stage(pc) + 1}
  /\ image_names_used' # image_names_used => pc = "images" /\ pc' = "fonts"
  /\ font_names_used' # font_names_used => pc = "fonts" /\ pc' = "styles"
  /\ style_names_used' # style_names_used => pc = "styles" /\ pc' = "names"
  /\ spine_ids' # spine_ids => pc = "content" /\ pc' = "content"
  /\ Grows(image_names_used, image_names_used', ImageClass.prefix)
  /\ Grows(font_names_used, font_names_used', FontClass.prefix)
  /\ Grows(style_names_used, style_names_used', STYLE_)
  /\ \A i \in 1..Len(origin) : i <= Len(origin') /\ origin'[i] = origin[i]
  /\ \A i \in (Len(origin) + 1)..Len(origin') : origin'[i].src = epub_idx

\* What holds of the content emitted so far: it is of the sources up to the
\* current one, in source order, with growing numbers.
SequentialSoFar ==
  /\ \A i \in 1..Len(origin) : origin[i].src <= epub_idx /\ origin[i].src <= Len(epub_paths)
  /\ \A i, j \in 1..Len(origin) :
       i < j => origin[i].src <= origin[j].src /\ origin[i].num < origin[j].num

\* C24: the sources are processed one after the other in the order given:
\* a step assigns assets or emits content for the current source only, the
\* source index never goes back, within a source the image loop, the font
\* loop, the stylesheet loop and the content loop come in this order, and
\* so the asset numbers and the content numbers assigned grow with the
\* source index.
C24_Sequential == [][SequentialStep]_vars /\ []SequentialSoFar

\* The content loop of the second source, content of the first being
\* emitted, assets having been assigned for both.
C24_Witness ==
  /\ pc = "content" /\ epub_idx = 2
  /\ \E i, j \in 1..Len(origin) : origin[i].src = 1 /\ origin[j].src = 2
  /\ \E h \in DOMAIN image_names_used :
       h \notin ContentsThrough(1, IMAGE_EXTENSIONS) /\ AssetNumber(image_names_used[h], ImageClass.prefix, Cardinality(DOMAIN image_names_used)) >= 2
  /\ ContentsThrough(1, IMAGE_EXTENSIONS) # {}

(***************************************************************************)
(* Calls over many sources.  The percentages delivered depend on the       *)
(* number of paths only, so the paths are all of the file that is no       *)
(* archive, which the loop passes over after the update.                   *)
(***************************************************************************)

\* The largest number of source paths of such a call.
MaxManySources == 12

InitManySources ==
  /\ epub_paths \in { [i \in 1..k |-> "N.txt"] : k \in 1..MaxManySources }
  /\ cfg \in Configs
  /\ Fresh
  /\ run = 1
  /\ first = NoFile
  /\ fn_in = << >>
  /\ fn_out = << >>

\* The steps such a call can take.
NextManySources ==
  \/ MakeTempDir \/ MakeTempDirFails \/ MakeDirs
  \/ SkipInvalid
  \/ StartPackage \/ BuildPackage \/ PackOpen \/ PackWrite \/ PackFails
  \/ WriteFails \/ Finish \/ Cleanup

SpecManySources == InitManySources /\ [][NextManySources]_vars

(***************************************************************************)
(* C25  The percentages never decrease.                                    *)
(***************************************************************************)

\* C25: the percentages delivered to the progress observer during one call
\* never decrease, whatever the number of sources.
C25_ProgressMonotone ==
  \A i, j \in 1..Len(progress) : i < j => progress[i] <= progress[j]

(***************************************************************************)
(* The mapper read back: every path added to it is looked up.              *)
(***************************************************************************)

\* Archive paths of a source, some of them differing only in letter case or
\* in percent-encoding.
AddedPaths == { <<"a",".","p","n","g">>, <<"A",".","p","n","g">>, <<"%","6","1",".","p","n","g">>, <<"x","/","a",".","p","n","g">>, <<"b",".","p","n","g">> }

\* The largest number of entries added to a sample mapper.
MaxAdds == 3

\* The calls of add for a source: distinct paths, the k-th mapped to the
\* k-th image of the output.
SampleAddCalls ==
  { [k \in 1..Len(ps) |-> << ps[k], IMAGES_ \o ImageClass.prefix \o str(k) \o <<".","p","n","g">> >>] :
      ps \in { s \in SeqsUpTo(AddedPaths, MaxAdds) :
                 s # << >> /\ \A i, j \in 1..Len(s) : i # j => s[i] # s[j] } }

InitReadBack == Idle /\ fn_in \in [adds : SampleAddCalls, doc : SampleDocs] /\ fn_out = << >>

\* add for every entry, finalize, then lookup of every added path from the document.
ReadBack ==
  /\ fn_out = << >>
  /\ fn_out' = << [k \in 1..Len(fn_in.adds) |->
                     AssetMapper_lookup(MapperOf(fn_in.adds, AssetMapper_init),
                                        fn_in.adds[k][1], fn_in.doc)] >>
  /\ UNCHANGED << machine, fn_in >>

SpecReadBack == InitReadBack /\ [][ReadBack]_vars

(***************************************************************************)
(* C26  Lookup after add.                                                  *)
(***************************************************************************)

\* C26: the lookup of a path that was added to the mapper returns the href
\* it was added with, whatever other paths were added before or after it.
C26_LookupAfterAdd ==
  fn_out # << >> =>
    \A k \in 1..Len(fn_in.adds) : fn_out[1][k] = Some(fn_in.adds[k][2])

=============================================================================
